---------------------------- MODULE Spec2Model ----------------------------
(***************************************************************************)
(* A model of the CZDS pipeline of tld-root-zone-db.                       *)
(*                                                                         *)
(*   src/src/jobs/centralized-zone.mts  the batched job (processInBatches, *)
(*                                      local and database processors)     *)
(*   src/src/centralized-zone.ts        the stand-alone sequential script  *)
(*   src/src/utils/fetcher.mts          fetchWithRetry                     *)
(*                                                                         *)
(* Every part of the program has its own variables and its own             *)
(* specification; the variables of the other parts keep their initial      *)
(* values under it.                                                        *)
(***************************************************************************)
EXTENDS Integers, Sequences, FiniteSets, TLC

VARIABLES
    \* ---- the batched job (jobs/centralized-zone.mts) ----
    mode,           \* "local": processZoneFilesToLocal, "db": processZoneFilesToDatabase
    downloadLinks,  \* the number of download links; link k is the k-th of the list
    batchSize,      \* CONCURRENCY_LIMIT as handed to processInBatches
    i,              \* the loop variable of processInBatches
    runnerPc,       \* where processInBatches stands
    results,        \* results: R[] of processInBatches
    itemPc,         \* where the processor of each link stands
    outcome,        \* the value each processor's promise resolved to
    threw,          \* the stage at which the work of a link threw ("none": nowhere)
    gz,             \* the compressed artifact of each link on disk (NoFile: absent)
    txt,            \* <tld>.txt of each link on disk
    buf,            \* the downloaded bytes a database work item holds in memory
    gunzipArg,      \* the bytes handed to zlib.gunzipSync by each link's work item
    elapsed,        \* milliseconds spent in the sleeps between batches
    \* ---- the sequential script (centralized-zone.ts) ----
    tsLinks,        \* downloadUrls.length
    tsI,            \* the loop variable of downloadAndExtractZoneFiles, 1-based
    tsPc,           \* where the script stands
    tsGz,           \* the compressed artifact of each link on disk
    tsTxt,          \* <tld>.txt of each link on disk
    tsGunzipArg,    \* the bytes handed to zlib.gunzip for each link
    tsError,        \* the stage whose error ended the run ("none": no error)
    tsExitCode,     \* the status the process exited with (-1: still running)
    tsUnlinkFailed, \* whether an unlink of a compressed artifact has failed
    \* ---- credentials of the script (centralized-zone.ts) ----
    nowMs,          \* Date.now()
    cacheFile,      \* the content of TOKEN_CACHE_FILE (NoCache: no such file)
    issued,         \* the number of tokens the authentication endpoint has issued
    authLog,        \* the status of every authentication response of the script
    lastSave,       \* how the last saveTokenToCache ended
    calls,          \* the number of token acquisitions started so far
    ticks,          \* the number of times the clock moved between acquisitions
    \* ---- getValidTokenWithRetry (centralized-zone.ts) ----
    maxRetries,     \* the parameter maxRetries
    retryCount,     \* the local retryCount
    rtPc,           \* where getValidTokenWithRetry stands
    rtToken,        \* the token it returned
    rtFromCache,    \* whether that token came from the cache file
    rtError,        \* the error it threw
    waits,          \* the delays it has slept, in order
    \* ---- fetchWithRetry (utils/fetcher.mts) ----
    fwMaxRetries,   \* the parameter maxRetries
    fwRetryCount,   \* the local retryCount
    fwPc,           \* where fetchWithRetry stands
    fwLog,          \* the status of every response it got (0: fetch threw)
    fwSleeps,       \* for each response, whether a sleep(5000) followed it
    fwError,        \* the error fetchWithRetry threw: the status of the attempt it
                    \* came from (0: fetch threw), NoError, or RetriesError
    \* ---- getValidToken of the job (jobs/centralized-zone.mts) ----
    tokenCache,     \* the module variable tokenCache (NoCache: null)
    mtPc,           \* where getValidToken stands
    mtToken,        \* the token it returned
    mtFromCache,    \* whether that token came from tokenCache
    \* ---- fetchDownloadLinks (centralized-zone.ts) ----
    flPc,           \* where fetchDownloadLinks stands
    flAttempt,      \* 1: the first link-list request, 2: the one after a 401
    flToken,        \* the token the next link-list request carries
    flSent,         \* the token each link-list request carried, in order
    flStatus,       \* the status of each link-list response (0: fetch threw)
    flReauth,       \* authentication requests made after the 401
    flUnlink,       \* what became of the cache file at the 401
    flPayload,      \* the kind of JSON payload of the last ok response
    flStarted,      \* main has started to process the links it was given
    \* ---- domain extraction (processZoneFile, extractAndProcessFile) ----
    exImpl,         \* "ts": processZoneFile, "job": the loop of extractAndProcessFile
    exInput,        \* the zone text the extraction reads
    exPc,           \* "ready": before the extraction, "done": after it
    exDomains,      \* the Set of domains after the loop, in insertion order
    exOutput,       \* the content written to <tld>.txt
    exPass,         \* 1: the zone text, 2: the output of pass 1 as the input
    exFirst,        \* the domains and the output of pass 1
    \* ---- concurrent getValidToken calls of a batch (jobs/centralized-zone.mts) ----
    gcPc,           \* where the getValidToken call of each work item stands
    gcResp,         \* the token in the authentication response each call got
    gcToken,        \* the token each call returned
    gcFromCache,    \* whether that token came from tokenCache
    gcDone,         \* the calls whose authentication completed, in that order
    \* ---- the paths of the work items of a batch (processZoneFilesToLocal) ----
    urls,           \* the download links of the work items of the batch
    gzPath,         \* gzPath of each work item (NoFile: not derived yet)
    txtPath,        \* txtPath of each work item
    \* ---- main (centralized-zone.ts) and processCentralizedZone (the job) ----
    mainImpl,       \* "ts": main of the script, "job": processCentralizedZone
    mainPc,         \* the step of the orchestration
    mainListed,     \* how fetchDownloadLinks ended ("none": not called yet)
    \* ---- downloadFile of centralized-zone.ts, one call ----
    dlPc,           \* the call and its promise
    dlBody,         \* response.body: "flowing", "ended", "errored"
    dlFile,         \* fileStream: "open", "finished", "errored"
    dlData,         \* the bytes of the response body
    dlWritten,      \* how many of them were piped to the file
    \* ---- processRootZone, jobs/root-zone.mts ----
    rzPc,           \* the step of processRootZone
    rzDb,           \* whether a database was passed
    rzLimit,        \* CONCURRENCY_LIMIT of saveToDatabase
    rzFetch,        \* for each of the three fetches: "pending", "ok", "failed"
    rzRows,         \* tldRows: the domains of the rows of the TLD table
    rzRdap,         \* the TLDs of rdapMap
    rzDnssec,       \* the TLDs of dnssecMap
    rzCombined,     \* combinedData
    rzFiles,        \* the files written, in the order of writing
    rzTables,       \* initializeTables has run its statements
    rzI,            \* i of the loop of saveToDatabase
    rzQuery         \* for each row, its INSERT: "none", "sent", "ok", "failed"

batchVars == <<mode, downloadLinks, batchSize, i, runnerPc, results, itemPc,
               outcome, threw, gz, txt, buf, gunzipArg, elapsed>>

scriptVars == <<tsLinks, tsI, tsPc, tsGz, tsTxt, tsGunzipArg, tsError, tsExitCode,
                tsUnlinkFailed>>

credVars == <<nowMs, cacheFile, issued, authLog, lastSave, calls, ticks>>

retryVars == <<maxRetries, retryCount, rtPc, rtToken, rtFromCache, rtError, waits>>

fetchVars == <<fwMaxRetries, fwRetryCount, fwPc, fwLog, fwSleeps, fwError>>

jobTokenVars == <<tokenCache, mtPc, mtToken, mtFromCache>>

linkVars == <<flPc, flAttempt, flToken, flSent, flStatus, flReauth, flUnlink,
              flPayload, flStarted>>

tokenVars == <<credVars, retryVars, fetchVars, jobTokenVars, linkVars>>

extractVars == <<exImpl, exInput, exPc, exDomains, exOutput, exPass, exFirst>>

raceVars == <<gcPc, gcResp, gcToken, gcFromCache, gcDone>>

pathVars == <<urls, gzPath, txtPath>>

mainVars == <<mainImpl, mainPc, mainListed>>

streamVars == <<dlPc, dlBody, dlFile, dlData, dlWritten>>

rootVars == <<rzPc, rzDb, rzLimit, rzFetch, rzRows, rzRdap, rzDnssec, rzCombined, rzFiles,
              rzTables, rzI, rzQuery>>

restVars == <<mainVars, streamVars, rootVars>>

mainFrame == <<batchVars, tokenVars, extractVars, raceVars, pathVars, streamVars, rootVars>>

streamFrame == <<batchVars, tokenVars, extractVars, raceVars, pathVars, mainVars, rootVars>>

rootFrame == <<batchVars, scriptVars, tokenVars, extractVars, raceVars, pathVars, mainVars,
               streamVars>>

otherVars == <<extractVars, raceVars, pathVars, restVars>>

vars == <<batchVars, scriptVars, tokenVars, otherVars>>

(* what the actions of each part leave alone *)
batchFrame == <<scriptVars, tokenVars, otherVars>>

scriptFrame == <<batchVars, tokenVars, otherVars>>

retryFrame == <<batchVars, scriptVars, fetchVars, jobTokenVars, linkVars, otherVars>>

jobTokenFrame == <<batchVars, scriptVars, retryVars, linkVars, otherVars>>

linkFrame == <<batchVars, scriptVars, retryVars, fetchVars, jobTokenVars, otherVars>>

extractFrame == <<batchVars, scriptVars, tokenVars, raceVars, pathVars, restVars>>

pathFrame == <<batchVars, scriptVars, tokenVars, extractVars, raceVars, restVars>>

raceFrame == <<batchVars, scriptVars, retryVars, fetchVars, linkVars, extractVars,
               pathVars, restVars,
               mtPc, mtToken, mtFromCache, nowMs, cacheFile, authLog, lastSave,
               calls, ticks>>

----------------------------------------------------------------------------
(* Bounds of the model *)

MaxLinks == 3
MaxBatch == 2

(* Program constants *)

DelayBetweenBatches == 1000
GzMagic0 == 31
GzMagic1 == 139
DeflateMethod == 8

(* no file at the path (no byte is negative) *)
NoFile == <<-1>>

----------------------------------------------------------------------------
(* Byte sequences a download can deliver. *)

Artifacts ==
    { <<>>, <<GzMagic0>>, <<GzMagic0, GzMagic1>>, <<0, GzMagic1, DeflateMethod>>,
      <<GzMagic0, GzMagic1, 0>>, <<GzMagic0, GzMagic1, DeflateMethod>> }

(* What a write that failed part way leaves at the path. *)
PartialFiles == { <<>>, <<GzMagic0>> }

(* The first two bytes are 0x1f 0x8b. *)
HeaderOk(data) ==
    ~(Len(data) < 2 \/ data[1] # GzMagic0 \/ data[2] # GzMagic1)

(* zlib.gunzip / zlib.gunzipSync: the stream decodes when it carries the gzip
   magic and the deflate method byte; anything else makes zlib throw. *)
GunzipOk(data) ==
    /\ Len(data) >= 3
    /\ data[1] = GzMagic0
    /\ data[2] = GzMagic1
    /\ data[3] = DeflateMethod

----------------------------------------------------------------------------
(* processInBatches, jobs/centralized-zone.mts *)

Links == 1..downloadLinks

(* an argument of Array.prototype.slice as an index of a list of len
   elements: a negative one counts from the end, all are clamped to 0..len *)
SliceIndex(n, len) ==
    IF n < 0 THEN (IF len + n < 0 THEN 0 ELSE len + n)
    ELSE IF n > len THEN len ELSE n

(* items.slice(i, i + batchSize), as positions of the list *)
Batch_Wide == {k \in Links : i < k /\ k <= i + batchSize + 1}
Batch ==
    {k \in Links : /\ SliceIndex(i, downloadLinks) < k
                   /\ k <= SliceIndex(i + batchSize, downloadLinks)}

(* i + batchSize < items.length *)
MoreBatches_Always == TRUE
MoreBatches == i + batchSize < downloadLinks

InFlight == {k \in Links : itemPc[k] \notin {"pending", "settled", "rejected"}}

Settled(k) == itemPc[k] \in {"settled", "rejected"}

(* i += batchSize *)
NextI_Overlap == i + batchSize - 1
NextI == i + batchSize

(* the list of a sequence of positions lo+1..hi of f *)
RECURSIVE Slice(_, _, _)
Slice(f, lo, hi) ==
    IF lo >= hi THEN <<>> ELSE <<f[lo + 1]>> \o Slice(f, lo + 1, hi)

(* the catch block of a processor: the failure becomes that link's outcome *)
ItemFails_NoCatch(k, stage) ==
    /\ itemPc' = [itemPc EXCEPT ![k] = "rejected"]
    /\ threw' = [threw EXCEPT ![k] = stage]
    /\ UNCHANGED outcome
ItemFails(k, stage) ==
    /\ itemPc' = [itemPc EXCEPT ![k] = "settled"]
    /\ threw' = [threw EXCEPT ![k] = stage]
    /\ outcome' = [outcome EXCEPT ![k] = [success |-> FALSE, tld |-> k]]

ItemSucceeds(k) ==
    /\ itemPc' = [itemPc EXCEPT ![k] = "settled"]
    /\ outcome' = [outcome EXCEPT ![k] = [success |-> TRUE, tld |-> k]]
    /\ UNCHANGED threw

(* the delays of a run are added up to this many milliseconds *)
MaxElapsed == (MaxLinks + 2) * DelayBetweenBatches

(* i is a double: it stops decreasing at -2^53, where i + batchSize rounds
   to i.  Every index below -items.length slices alike, so the width kept
   here is that of MinIndex *)
MinIndex == 0 - (MaxLinks + 2)

Saturate(n) == IF n < MinIndex THEN MinIndex ELSE n

(* the least CONCURRENCY_LIMIT taken from the environment *)
MinLimit == -1

(* processInBatches is called with CONCURRENCY_LIMIT =
   parseInt(process.env.CONCURRENCY_LIMIT || "10", 10), any integer *)
InitBatchEnv ==
    /\ mode \in {"local", "db"}
    /\ downloadLinks \in 0..MaxLinks
    /\ batchSize \in MinLimit..MaxBatch
    /\ i = 0
    /\ runnerPc = "loop"
    /\ results = <<>>
    /\ itemPc = [k \in 1..downloadLinks |-> "pending"]
    /\ outcome = [k \in 1..downloadLinks |-> [success |-> FALSE, tld |-> 0]]
    /\ threw = [k \in 1..downloadLinks |-> "none"]
    /\ gz = [k \in 1..downloadLinks |-> NoFile]
    /\ txt = [k \in 1..downloadLinks |-> "absent"]
    /\ buf = [k \in 1..downloadLinks |-> NoFile]
    /\ gunzipArg = [k \in 1..downloadLinks |-> NoFile]
    /\ elapsed = 0

InitBatch ==
    /\ mode \in {"local", "db"}
    /\ downloadLinks \in 0..MaxLinks
    /\ batchSize \in 1..MaxBatch
    /\ i = 0
    /\ runnerPc = "loop"
    /\ results = <<>>
    /\ itemPc = [k \in 1..downloadLinks |-> "pending"]
    /\ outcome = [k \in 1..downloadLinks |-> [success |-> FALSE, tld |-> 0]]
    /\ threw = [k \in 1..downloadLinks |-> "none"]
    /\ gz = [k \in 1..downloadLinks |-> NoFile]
    /\ txt = [k \in 1..downloadLinks |-> "absent"]
    /\ buf = [k \in 1..downloadLinks |-> NoFile]
    /\ gunzipArg = [k \in 1..downloadLinks |-> NoFile]
    /\ elapsed = 0

(* for (...; i < items.length; ...) { batch = slice; Promise.all(batch.map(processor)) }:
   map calls every processor of the batch, each runs to its first await *)
StartBatch ==
    /\ runnerPc = "loop"
    /\ i < downloadLinks
    /\ itemPc' = [k \in Links |-> IF k \in Batch THEN "downloading" ELSE itemPc[k]]
    /\ runnerPc' = "await"
    /\ UNCHANGED <<mode, downloadLinks, batchSize, i, results, outcome, threw,
                   gz, txt, buf, gunzipArg, elapsed, batchFrame>>

(* await Promise.all(...) settles; results.push(...batchResults); the delay test *)
AwaitBatch ==
    /\ runnerPc = "await"
    /\ IF \E k \in Batch : itemPc[k] = "rejected"
       THEN /\ runnerPc' = "threw"
            /\ UNCHANGED <<i, results>>
       ELSE /\ \A k \in Batch : itemPc[k] = "settled"
            /\ results' = results \o Slice(outcome, SliceIndex(i, downloadLinks),
                                            SliceIndex(i + batchSize, downloadLinks))
            /\ IF DelayBetweenBatches > 0 /\ MoreBatches
               THEN runnerPc' = "sleep" /\ i' = i
               ELSE runnerPc' = "loop" /\ i' = Saturate(NextI)
    /\ UNCHANGED <<mode, downloadLinks, batchSize, itemPc, outcome, threw,
                   gz, txt, buf, gunzipArg, elapsed, batchFrame>>

(* await sleep(delayBetweenBatches) ends; i += batchSize *)
SleepDone ==
    /\ runnerPc = "sleep"
    /\ elapsed' = IF elapsed < MaxElapsed THEN elapsed + DelayBetweenBatches ELSE elapsed
    /\ i' = Saturate(NextI)
    /\ runnerPc' = "loop"
    /\ UNCHANGED <<mode, downloadLinks, batchSize, results, itemPc, outcome, threw,
                   gz, txt, buf, gunzipArg, batchFrame>>

(* the loop ends: return results *)
ReturnResults ==
    /\ runnerPc = "loop"
    /\ ~(i < downloadLinks)
    /\ runnerPc' = "returned"
    /\ UNCHANGED <<mode, downloadLinks, batchSize, i, results, itemPc, outcome, threw,
                   gz, txt, buf, gunzipArg, elapsed, batchFrame>>

(* The batched job is not running. *)
IdleBatch ==
    /\ mode = "off"
    /\ downloadLinks = 0
    /\ batchSize = 1
    /\ i = 0
    /\ runnerPc = "off"
    /\ results = <<>>
    /\ itemPc = <<>>
    /\ outcome = <<>>
    /\ threw = <<>>
    /\ gz = <<>>
    /\ txt = <<>>
    /\ buf = <<>>
    /\ gunzipArg = <<>>
    /\ elapsed = 0

----------------------------------------------------------------------------
(* The processor of processZoneFilesToLocal *)

(* downloadFile: getValidToken, fetchWithRetry, arrayBuffer, writeFileSync(gzPath) *)
DownloadFileOk(k) ==
    /\ mode = "local"
    /\ itemPc[k] = "downloading"
    /\ \E data \in Artifacts : gz' = [gz EXCEPT ![k] = data]
    /\ itemPc' = [itemPc EXCEPT ![k] = "downloaded"]
    /\ UNCHANGED <<mode, downloadLinks, batchSize, i, runnerPc, results, outcome,
                   threw, txt, buf, gunzipArg, elapsed, batchFrame>>

(* downloadFile throws: no credential, the request failed for good, or
   writeFileSync threw after it had created the file; nothing is unlinked *)
DownloadFileThrows(k) ==
    /\ mode = "local"
    /\ itemPc[k] = "downloading"
    /\ \E left \in {gz[k]} \cup PartialFiles : gz' = [gz EXCEPT ![k] = left]
    /\ ItemFails(k, "download")
    /\ UNCHANGED <<mode, downloadLinks, batchSize, i, runnerPc, results,
                   txt, buf, gunzipArg, elapsed, batchFrame>>

(* extractAndProcessFile: readFileSync, gunzipSync, the extraction loop,
   writeFileSync(txtPath), unlinkSync(gzPath), all synchronous *)
ExtractAndProcessFile(k) ==
    /\ mode = "local"
    /\ itemPc[k] = "downloaded"
    /\ gunzipArg' = [gunzipArg EXCEPT ![k] = gz[k]]
    /\ IF ~GunzipOk(gz[k])
       THEN /\ ItemFails(k, "gunzip")
            /\ UNCHANGED <<gz, txt>>
       ELSE \E written \in BOOLEAN :
              IF written
              THEN /\ txt' = [txt EXCEPT ![k] = "domains"]
                   /\ gz' = [gz EXCEPT ![k] = NoFile]
                   /\ ItemSucceeds(k)
              ELSE /\ ItemFails(k, "write")
                   /\ UNCHANGED <<gz, txt>>
    /\ UNCHANGED <<mode, downloadLinks, batchSize, i, runnerPc, results,
                   buf, elapsed, batchFrame>>

----------------------------------------------------------------------------
(* The processor of processZoneFilesToDatabase: downloadAndProcessZone *)

(* getValidToken, fetchWithRetry, response.arrayBuffer() *)
FetchZoneOk(k) ==
    /\ mode = "db"
    /\ itemPc[k] = "downloading"
    /\ \E data \in Artifacts : buf' = [buf EXCEPT ![k] = data]
    /\ itemPc' = [itemPc EXCEPT ![k] = "fetched"]
    /\ UNCHANGED <<mode, downloadLinks, batchSize, i, runnerPc, results, outcome,
                   threw, gz, txt, gunzipArg, elapsed, batchFrame>>

FetchZoneThrows(k) ==
    /\ mode = "db"
    /\ itemPc[k] = "downloading"
    /\ ItemFails(k, "download")
    /\ UNCHANGED <<mode, downloadLinks, batchSize, i, runnerPc, results,
                   gz, txt, buf, gunzipArg, elapsed, batchFrame>>

(* zlib.gunzipSync(Buffer.from(buffer)) and the extraction loop, up to the
   first await of a query *)
GunzipZone(k) ==
    /\ mode = "db"
    /\ itemPc[k] = "fetched"
    /\ gunzipArg' = [gunzipArg EXCEPT ![k] = buf[k]]
    /\ IF ~GunzipOk(buf[k])
       THEN ItemFails(k, "gunzip")
       ELSE /\ itemPc' = [itemPc EXCEPT ![k] = "saving"]
            /\ UNCHANGED <<outcome, threw>>
    /\ UNCHANGED <<mode, downloadLinks, batchSize, i, runnerPc, results,
                   gz, txt, buf, elapsed, batchFrame>>

(* the INSERTs of the TLD row and of its domains *)
SaveZone(k) ==
    /\ mode = "db"
    /\ itemPc[k] = "saving"
    /\ \E saved \in BOOLEAN :
         IF saved THEN ItemSucceeds(k) ELSE ItemFails(k, "db")
    /\ UNCHANGED <<mode, downloadLinks, batchSize, i, runnerPc, results,
                   gz, txt, buf, gunzipArg, elapsed, batchFrame>>

NextBatch ==
    \/ StartBatch
    \/ AwaitBatch
    \/ SleepDone
    \/ ReturnResults
    \/ \E k \in Links : DownloadFileOk(k)
    \/ \E k \in Links : DownloadFileThrows(k)
    \/ \E k \in Links : ExtractAndProcessFile(k)
    \/ \E k \in Links : FetchZoneOk(k)
    \/ \E k \in Links : FetchZoneThrows(k)
    \/ \E k \in Links : GunzipZone(k)
    \/ \E k \in Links : SaveZone(k)

----------------------------------------------------------------------------
(* downloadAndExtractZoneFiles and main, centralized-zone.ts: one link after
   the other; the first error ends the run with process.exit(1) *)
(* <tld>.txt of a link is "absent", "old" (the domain list an earlier run
   wrote), "raw" (the decompressed zone), "partial" or "domains" *)

TsLinkSet == 1..tsLinks

InitScript ==
    /\ tsLinks \in 1..MaxLinks
    /\ tsI = 1
    /\ tsPc = "download"
    /\ tsGz = [k \in 1..tsLinks |-> NoFile]
    /\ tsTxt \in [1..tsLinks -> {"absent", "old"}]
    /\ tsGunzipArg = [k \in 1..tsLinks |-> NoFile]
    /\ tsError = "none"
    /\ tsExitCode = -1
    /\ tsUnlinkFailed = FALSE

(* The script is not running. *)
IdleScript ==
    /\ tsLinks = 0
    /\ tsI = 1
    /\ tsPc = "off"
    /\ tsGz = <<>>
    /\ tsTxt = <<>>
    /\ tsGunzipArg = <<>>
    /\ tsError = "none"
    /\ tsExitCode = -1
    /\ tsUnlinkFailed = FALSE

(* catch (error) { throw error } of the loop, then the catch of main:
   process.exit(1) *)
TsFail(stage) ==
    /\ tsError' = stage
    /\ tsExitCode' = 1
    /\ tsPc' = "exited"

(* if (fs.existsSync(gzPath)) fs.unlinkSync(gzPath): the unlink may fail *)
TsUnlinkGz ==
    \E unlinked \in BOOLEAN :
      IF unlinked \/ tsGz[tsI] = NoFile
      THEN /\ tsGz' = [tsGz EXCEPT ![tsI] = NoFile]
           /\ UNCHANGED tsUnlinkFailed
      ELSE /\ tsUnlinkFailed' = TRUE
           /\ UNCHANGED tsGz

(* await downloadFile(url, gzPath) resolves: the body was written to gzPath *)
TsDownloadOk ==
    /\ tsPc = "download"
    /\ \E data \in Artifacts : tsGz' = [tsGz EXCEPT ![tsI] = data]
    /\ tsPc' = "stat"
    /\ UNCHANGED <<tsLinks, tsI, tsTxt, tsGunzipArg, tsError, tsExitCode,
                   tsUnlinkFailed, scriptFrame>>

(* how downloadFile of the script fails: getValidTokenWithRetry or fetch
   threw, !response.ok, !body, or the write stream emitted "error" *)
DownloadFailures == {"token", "status", "body", "stream"}

(* downloadFile rejects.  Every failing path runs
   try { if (fs.existsSync(outputPath)) fs.unlinkSync(outputPath) } catch {}
   before the error leaves; a stream error may have left part of the body *)
TsDownloadThrows ==
    /\ tsPc = "download"
    /\ \E cause \in DownloadFailures, partial \in {NoFile} \cup PartialFiles,
          unlinked \in BOOLEAN :
         LET before == IF cause = "stream" THEN partial ELSE tsGz[tsI] IN
         IF unlinked \/ before = NoFile
         THEN /\ tsGz' = [tsGz EXCEPT ![tsI] = NoFile]
              /\ UNCHANGED tsUnlinkFailed
         ELSE /\ tsGz' = [tsGz EXCEPT ![tsI] = before]
              /\ tsUnlinkFailed' = TRUE
    /\ TsFail("download")
    /\ UNCHANGED <<tsLinks, tsI, tsTxt, tsGunzipArg, scriptFrame>>

(* const stats = fs.statSync(gzPath); if (stats.size === 0) { unlink; throw } *)
TsStat ==
    /\ tsPc = "stat"
    /\ IF Len(tsGz[tsI]) = 0
       THEN /\ TsUnlinkGz
            /\ TsFail("empty")
       ELSE /\ tsPc' = "extract"
            /\ UNCHANGED <<tsGz, tsUnlinkFailed, tsError, tsExitCode>>
    /\ UNCHANGED <<tsLinks, tsI, tsTxt, tsGunzipArg, scriptFrame>>

(* the validation of extractGzFile: data.length < 2 || data[0] !== 0x1f ||
   data[1] !== 0x8b rejects before zlib.gunzip is called *)
TsHeaderRejected_Unchecked(data) == FALSE
TsHeaderRejected(data) == ~HeaderOk(data)

(* extractGzFile(gzPath, txtPath) with the try/catch around it: readFile,
   the header check, zlib.gunzip, writeFile, unlink of the .gz; on a rejection
   the catch removes the .gz and throws *)
TsExtractGzFile ==
    /\ tsPc = "extract"
    /\ LET data == tsGz[tsI] IN
       IF TsHeaderRejected(data)
       THEN /\ TsUnlinkGz
            /\ TsFail("header")
            /\ UNCHANGED <<tsGunzipArg, tsTxt>>
       ELSE /\ tsGunzipArg' = [tsGunzipArg EXCEPT ![tsI] = data]
            /\ IF ~GunzipOk(data)
               THEN /\ TsUnlinkGz
                    /\ TsFail("gunzip")
                    /\ UNCHANGED tsTxt
               ELSE \E written \in BOOLEAN :
                      IF written
                      THEN /\ tsTxt' = [tsTxt EXCEPT ![tsI] = "raw"]
                           /\ TsUnlinkGz
                           /\ tsPc' = "process"
                           /\ UNCHANGED <<tsError, tsExitCode>>
                      ELSE /\ \E left \in {tsTxt[tsI], "partial"} :
                                tsTxt' = [tsTxt EXCEPT ![tsI] = left]
                           /\ TsUnlinkGz
                           /\ TsFail("write")
    /\ UNCHANGED <<tsLinks, tsI, scriptFrame>>

(* await processZoneFile(txtPath): the file is replaced by its domain list *)
TsProcessZoneFile ==
    /\ tsPc = "process"
    /\ \E written \in BOOLEAN :
         IF written
         THEN /\ tsTxt' = [tsTxt EXCEPT ![tsI] = "domains"]
              /\ tsPc' = IF tsI < tsLinks THEN "sleep" ELSE "finish"
              /\ UNCHANGED <<tsError, tsExitCode>>
         ELSE /\ TsFail("process")
              /\ UNCHANGED tsTxt
    /\ UNCHANGED <<tsLinks, tsI, tsGz, tsGunzipArg, tsUnlinkFailed, scriptFrame>>

(* await sleep(1000); i++ *)
TsSleepDone ==
    /\ tsPc = "sleep"
    /\ tsI' = tsI + 1
    /\ tsPc' = "download"
    /\ UNCHANGED <<tsLinks, tsGz, tsTxt, tsGunzipArg, tsError, tsExitCode,
                   tsUnlinkFailed, scriptFrame>>

(* the loop is over, main returns and the process ends with status 0 *)
TsFinish ==
    /\ tsPc = "finish"
    /\ tsPc' = "exited"
    /\ tsExitCode' = 0
    /\ UNCHANGED <<tsLinks, tsI, tsGz, tsTxt, tsGunzipArg, tsError,
                   tsUnlinkFailed, scriptFrame>>

NextScript ==
    \/ TsDownloadOk
    \/ TsDownloadThrows
    \/ TsStat
    \/ TsExtractGzFile
    \/ TsProcessZoneFile
    \/ TsSleepDone
    \/ TsFinish

----------------------------------------------------------------------------
(* Tokens and the token cache file of the script, centralized-zone.ts *)

(* A bearer token: the serial number of its issue (0: left by an earlier run),
   what jwtDecode makes of it and the exp claim in seconds.
     "jwt"        decodes, with an exp claim
     "jwt-noexp"  decodes, without an exp claim (decoded.exp is undefined)
     "opaque"     jwtDecode throws *)
NoToken == [id |-> 0, kind |-> "none", exp |-> 0]

Token(n, kind, exp) == [id |-> n, kind |-> kind, exp |-> IF kind = "jwt" THEN exp ELSE 0]

(* TOKEN_CACHE_FILE: absent, not parseable, or {accessToken, expiresAt} *)
NoCache == [state |-> "absent", accessToken |-> NoToken, expiresAt |-> 0]

CorruptCache == [state |-> "corrupt", accessToken |-> NoToken, expiresAt |-> 0]

BufferSeconds == 300

(* isTokenExpired(token, bufferSeconds) of centralized-zone.ts at time now:
   decoded.exp - bufferSeconds <= Math.floor(Date.now() / 1000); a token that
   does not decode counts as expired; without exp the comparison is one with
   NaN, which is false *)
IsTokenExpired(token, bufferSeconds, now) ==
    CASE token.kind = "jwt" -> token.exp - bufferSeconds <= now \div 1000
      [] token.kind = "jwt-noexp" -> FALSE
      [] OTHER -> TRUE

(* getCachedToken: the cached token when the file parses and the token is not
   expired, else null *)
GetCachedToken(file, now) ==
    IF file.state = "json" /\ ~IsTokenExpired(file.accessToken, BufferSeconds, now)
    THEN file.accessToken
    ELSE NoToken

(* how saveTokenToCache(token) ends: jwtDecode may throw, writeFileSync may
   throw; both are caught and logged *)
SaveOutcome(token, written) ==
    IF token.kind = "opaque" THEN "undecodable"
    ELSE IF ~written THEN "write-failed"
    ELSE "saved"

(* saveTokenToCache throws to authenticate: never, its whole body is in a
   try whose catch only warns *)
SaveThrows_Uncaught(saved) == saved # "saved"
SaveThrows(saved) == FALSE

(* the cache file after saveTokenToCache(token); a failed write leaves the
   file as it was or unparseable. expiresAt is decoded.exp * 1000, NaN (-1
   here) without exp *)
SaveTokenToCache(file, token, written, left) ==
    CASE SaveOutcome(token, written) = "saved" ->
           [state |-> "json", accessToken |-> token,
            expiresAt |-> IF token.kind = "jwt" THEN token.exp * 1000 ELSE -1]
      [] SaveOutcome(token, written) = "write-failed" /\ left = "corrupt" -> CorruptCache
      [] OTHER -> file

(* the tokens the authentication endpoint may answer with at time now: a JWT
   valid for an hour, a JWT that is about to expire, a JWT without exp, a
   token that is no JWT *)
IssuedTokens(n, now) ==
    { Token(n, "jwt", now \div 1000 + 3600), Token(n, "jwt", now \div 1000 + 300),
      Token(n, "jwt-noexp", 0), Token(n, "opaque", 0) }

(* what an earlier run may have left in the cache file *)
PriorCacheFiles ==
    { NoCache, CorruptCache,
      [state |-> "json", accessToken |-> Token(0, "jwt", 0), expiresAt |-> 0],
      [state |-> "json", accessToken |-> Token(0, "jwt", 100000), expiresAt |-> 100000000] }

(* the statuses of a response of the authentication endpoint; 0: fetch threw *)
AuthStatuses == {200, 401, 429, 500, 0}

InitCred ==
    /\ nowMs = 0
    /\ cacheFile \in PriorCacheFiles
    /\ issued = 0
    /\ authLog = <<>>
    /\ lastSave = "none"
    /\ calls = 1
    /\ ticks = 0

----------------------------------------------------------------------------
(* getValidTokenWithRetry, centralized-zone.ts *)

MaxRetries == 5

Min(a, b) == IF a < b THEN a ELSE b

(* Math.min(1000 * 2 ** retryCount, 30000) *)
Backoff_NoCap(n) == 1000 * 2 ^ n
Backoff(n) == Min(1000 * 2 ^ n, 30000)

(* error.message.includes("429") || error.message.includes("Too Many Requests")
   for the message "Authentication failed: <status> <statusText>" *)
RateLimited(status) == status = 429

(* while (retryCount < maxRetries) *)
RtMayAttempt_OffByOne == retryCount <= maxRetries
RtMayAttempt == retryCount < maxRetries

InitRetry ==
    /\ maxRetries \in 0..MaxRetries
    /\ retryCount = 0
    /\ rtPc = "loop"
    /\ rtToken = NoToken
    /\ rtFromCache = FALSE
    /\ rtError = "none"
    /\ waits = <<>>

IdleRetry ==
    /\ maxRetries = 0
    /\ retryCount = 0
    /\ rtPc = "off"
    /\ rtToken = NoToken
    /\ rtFromCache = FALSE
    /\ rtError = "none"
    /\ waits = <<>>

(* the loop test, then getValidToken: the cached token, or authenticate() *)
RtAttempt ==
    /\ rtPc = "loop"
    /\ RtMayAttempt
    /\ LET cached == GetCachedToken(cacheFile, nowMs) IN
       IF cached # NoToken
       THEN /\ rtToken' = cached
            /\ rtFromCache' = TRUE
            /\ rtPc' = "returned"
       ELSE /\ rtPc' = "authenticating"
            /\ UNCHANGED <<rtToken, rtFromCache>>
    /\ UNCHANGED <<maxRetries, retryCount, rtError, waits, credVars, retryFrame>>

(* the loop ends: throw new Error("Max retries exceeded") *)
RtExhausted ==
    /\ rtPc = "loop"
    /\ ~RtMayAttempt
    /\ rtError' = "max-retries"
    /\ rtPc' = "threw"
    /\ UNCHANGED <<maxRetries, retryCount, rtToken, rtFromCache, waits, credVars, retryFrame>>

(* authenticate(): the response is ok; the token is saved and returned *)
RtAuthOk ==
    /\ rtPc = "authenticating"
    /\ \E token \in IssuedTokens(issued + 1, nowMs), written \in BOOLEAN,
          left \in {"same", "corrupt"} :
         /\ cacheFile' = SaveTokenToCache(cacheFile, token, written, left)
         /\ lastSave' = SaveOutcome(token, written)
         /\ rtToken' = token
    /\ issued' = issued + 1
    /\ authLog' = Append(authLog, 200)
    /\ rtFromCache' = FALSE
    /\ rtPc' = "returned"
    /\ UNCHANGED <<maxRetries, retryCount, rtError, waits, nowMs, calls, ticks, retryFrame>>

(* authenticate() throws (response not ok, or fetch threw); the catch block
   of getValidTokenWithRetry *)
RtAuthThrows ==
    /\ rtPc = "authenticating"
    /\ \E status \in AuthStatuses \ {200} :
         /\ authLog' = Append(authLog, status)
         /\ IF RateLimited(status)
            THEN /\ retryCount' = retryCount + 1
                 /\ waits' = Append(waits, Backoff(retryCount + 1))
                 /\ rtPc' = "sleeping"
                 /\ UNCHANGED rtError
            ELSE /\ rtError' = "auth-failed"
                 /\ rtPc' = "threw"
                 /\ UNCHANGED <<retryCount, waits>>
    /\ UNCHANGED <<maxRetries, rtToken, rtFromCache, nowMs, cacheFile, issued, lastSave,
                   calls, ticks, retryFrame>>

(* await sleep(delay) ends; continue *)
RtSleepDone ==
    /\ rtPc = "sleeping"
    /\ nowMs' = nowMs + waits[Len(waits)]
    /\ rtPc' = "loop"
    /\ UNCHANGED <<maxRetries, retryCount, rtToken, rtFromCache, rtError, waits,
                   cacheFile, issued, authLog, lastSave, calls, ticks, retryFrame>>

NextRetry ==
    \/ RtAttempt
    \/ RtExhausted
    \/ RtAuthOk
    \/ RtAuthThrows
    \/ RtSleepDone

----------------------------------------------------------------------------
(* fetchWithRetry, utils/fetcher.mts *)

FetchMaxRetries == 3

(* nothing thrown; new Error(`Failed after ${maxRetries} retries`) *)
NoError == -1

RetriesError == -2

InitFetch ==
    /\ fwMaxRetries = FetchMaxRetries
    /\ fwRetryCount = 0
    /\ fwPc = "off"
    /\ fwLog = <<>>
    /\ fwSleeps = 0
    /\ fwError = NoError

(* let retryCount = 0; while (retryCount <= maxRetries) { fetch(...) *)
FwStart ==
    /\ fwRetryCount' = 0
    /\ fwLog' = <<>>
    /\ fwSleeps' = 0
    /\ fwError' = NoError
    /\ fwPc' = "request"
    /\ UNCHANGED fwMaxRetries

(* response.status >= 500 && retryCount < maxRetries: retry after a sleep *)
FwRetriesStatus(status) == status >= 500 /\ fwRetryCount < fwMaxRetries

(* the catch block: it catches what fetch threw and also the HTTP error
   thrown three lines above it, inside the same try *)
FwCatchRethrows_OffByOne == fwRetryCount > fwMaxRetries
FwCatchRethrows == fwRetryCount >= fwMaxRetries

(* await fetch(...) settles: a response, or an exception (status 0) *)
FwResponse ==
    /\ fwPc = "request"
    /\ \E status \in AuthStatuses :
         /\ fwLog' = Append(fwLog, status)
         /\ IF status = 200
            THEN /\ fwPc' = "returned"
                 /\ UNCHANGED <<fwRetryCount, fwError>>
            ELSE IF status # 0 /\ FwRetriesStatus(status)
            THEN /\ fwRetryCount' = fwRetryCount + 1
                 /\ fwPc' = "sleep"
                 /\ UNCHANGED fwError
            ELSE IF FwCatchRethrows
            THEN /\ fwPc' = "threw"
                 /\ fwError' = status
                 /\ UNCHANGED fwRetryCount
            ELSE /\ fwRetryCount' = fwRetryCount + 1
                 /\ fwPc' = "sleep"
                 /\ UNCHANGED fwError
    /\ UNCHANGED <<fwMaxRetries, fwSleeps, jobTokenVars, credVars, jobTokenFrame>>

(* await sleep(5000) ends; the loop test *)
FwSleepDone ==
    /\ fwPc = "sleep"
    /\ fwSleeps' = fwSleeps + 1
    /\ nowMs' = nowMs + 5000
    /\ IF fwRetryCount <= fwMaxRetries
       THEN /\ fwPc' = "request"
            /\ UNCHANGED fwError
       ELSE /\ fwPc' = "threw"
            /\ fwError' = RetriesError
    /\ UNCHANGED <<fwMaxRetries, fwRetryCount, fwLog, jobTokenVars,
                   cacheFile, issued, authLog, lastSave, calls, ticks, jobTokenFrame>>

----------------------------------------------------------------------------
(* getValidToken and isTokenExpired of the job, jobs/centralized-zone.mts *)

(* decoded.exp * 1000 < Date.now() + 300000; a token that does not decode
   counts as expired; without exp the comparison is one with NaN: false *)
IsTokenExpiredJob(token, now) ==
    CASE token.kind = "jwt" -> token.exp * 1000 < now + 300000
      [] token.kind = "jwt-noexp" -> FALSE
      [] OTHER -> TRUE

InitJobToken ==
    /\ tokenCache = NoCache
    /\ mtPc = "call"
    /\ mtToken = NoToken
    /\ mtFromCache = FALSE

IdleJobToken ==
    /\ tokenCache = NoCache
    /\ mtPc = "off"
    /\ mtToken = NoToken
    /\ mtFromCache = FALSE

(* if (tokenCache && !isTokenExpired(tokenCache.accessToken)) return it;
   else fetchWithRetry(AUTH_URL, ...) *)
MtGetValidToken ==
    /\ mtPc = "call"
    /\ IF tokenCache # NoCache /\ ~IsTokenExpiredJob(tokenCache.accessToken, nowMs)
       THEN /\ mtToken' = tokenCache.accessToken
            /\ mtFromCache' = TRUE
            /\ mtPc' = "returned"
            /\ UNCHANGED fetchVars
       ELSE /\ mtPc' = "authenticating"
            /\ FwStart
            /\ UNCHANGED <<mtToken, mtFromCache>>
    /\ UNCHANGED <<tokenCache, credVars, jobTokenFrame>>

(* fetchWithRetry returned the response: tokenCache = {accessToken,
   expiresAt: Date.now() + expiresIn * 1000}; return the token *)
MtAuthReturns ==
    /\ mtPc = "authenticating"
    /\ fwPc = "returned"
    /\ \E token \in IssuedTokens(issued + 1, nowMs), expiresIn \in {300, 3600} :
         /\ tokenCache' = [state |-> "json", accessToken |-> token,
                           expiresAt |-> nowMs + expiresIn * 1000]
         /\ mtToken' = token
    /\ issued' = issued + 1
    /\ mtFromCache' = FALSE
    /\ mtPc' = "returned"
    /\ fwPc' = "off"
    /\ UNCHANGED <<fwMaxRetries, fwRetryCount, fwLog, fwSleeps, fwError, nowMs, cacheFile,
                   authLog, lastSave, calls, ticks, jobTokenFrame>>

(* fetchWithRetry threw: getValidToken throws *)
MtAuthThrows ==
    /\ mtPc = "authenticating"
    /\ fwPc = "threw"
    /\ mtPc' = "threw"
    /\ fwPc' = "off"
    /\ UNCHANGED <<fwMaxRetries, fwRetryCount, fwLog, fwSleeps, fwError, tokenCache, mtToken,
                   mtFromCache, credVars, jobTokenFrame>>

NextJobToken ==
    \/ MtGetValidToken
    \/ MtAuthReturns
    \/ MtAuthThrows
    \/ FwResponse
    \/ FwSleepDone

----------------------------------------------------------------------------
(* fetchDownloadLinks, centralized-zone.ts *)

InitLinks ==
    /\ flPc = "start"
    /\ flAttempt = 1
    /\ flToken = NoToken
    /\ flSent = <<>>
    /\ flStatus = <<>>
    /\ flReauth = 0
    /\ flUnlink = "none"
    /\ flPayload = "none"
    /\ flStarted = FALSE

IdleLinks ==
    /\ flPc = "off"
    /\ flAttempt = 1
    /\ flToken = NoToken
    /\ flSent = <<>>
    /\ flStatus = <<>>
    /\ flReauth = 0
    /\ flUnlink = "none"
    /\ flPayload = "none"
    /\ flStarted = FALSE

(* try { if (fs.existsSync(TOKEN_CACHE_FILE)) fs.unlinkSync(TOKEN_CACHE_FILE) }
   catch { ignore }: the file after it, when the unlink works or fails *)
UnlinkCache(file, unlinked) ==
    IF file.state = "absent" \/ unlinked THEN NoCache ELSE file

UnlinkOutcome(file, unlinked) ==
    IF file.state = "absent" THEN "absent"
    ELSE IF unlinked THEN "removed"
    ELSE "failed"

(* const token = await getValidToken(): the cached token, or authenticate() *)
FlGetValidToken ==
    /\ flPc = "start"
    /\ LET cached == GetCachedToken(cacheFile, nowMs) IN
       IF cached # NoToken
       THEN /\ flToken' = cached
            /\ flPc' = "request"
       ELSE /\ flPc' = "auth"
            /\ UNCHANGED flToken
    /\ UNCHANGED <<flAttempt, flSent, flStatus, flReauth, flUnlink, flPayload, flStarted,
                   credVars, linkFrame>>

(* authenticate() gets a token: saveTokenToCache(data.accessToken), then
   return data.accessToken; getValidToken returns it to fetchDownloadLinks *)
FlAuthOk ==
    /\ flPc = "auth"
    /\ \E token \in IssuedTokens(issued + 1, nowMs), written \in BOOLEAN,
          left \in {"same", "corrupt"} :
         /\ cacheFile' = SaveTokenToCache(cacheFile, token, written, left)
         /\ lastSave' = SaveOutcome(token, written)
         /\ IF SaveThrows(SaveOutcome(token, written))
            THEN /\ flPc' = "threw"
                 /\ UNCHANGED flToken
            ELSE /\ flPc' = "request"
                 /\ flToken' = token
    /\ issued' = issued + 1
    /\ authLog' = Append(authLog, 200)
    /\ UNCHANGED <<flAttempt, flSent, flStatus, flReauth, flUnlink, flPayload, flStarted,
                   nowMs, calls, ticks, linkFrame>>

(* authenticate() throws: fetchDownloadLinks throws *)
FlAuthThrows ==
    /\ flPc = "auth"
    /\ \E status \in AuthStatuses \ {200} : authLog' = Append(authLog, status)
    /\ flPc' = "threw"
    /\ UNCHANGED <<flAttempt, flToken, flSent, flStatus, flReauth, flUnlink, flPayload,
                   flStarted, nowMs, cacheFile, issued, lastSave, calls, ticks, linkFrame>>

(* the JSON payloads of an ok response: an array of strings, an array whose
   second element is not a string, an array of one number, an object *)
Payloads == {"strings", "mixed", "numbers", "object"}

(* Array.isArray(data) *)
IsArray(payload) == payload \in {"strings", "mixed", "numbers"}

(* the link-list request with Bearer flToken settles.  ok: the payload must be
   an array.  401 on the first request: the cache file is unlinked and
   getValidToken is called again.  Anything else throws. *)
FlResponse ==
    /\ flPc = "request"
    /\ flSent' = Append(flSent, flToken)
    /\ \E status \in {200, 401, 500, 0}, payload \in Payloads, unlinked \in BOOLEAN :
         /\ flStatus' = Append(flStatus, status)
         /\ IF status = 200
            THEN /\ flPc' = IF IsArray(payload) THEN "returned" ELSE "threw"
                 /\ flPayload' = payload
                 /\ UNCHANGED <<flAttempt, flToken, flReauth, flUnlink, cacheFile>>
            ELSE IF status = 401 /\ flAttempt = 1
            THEN /\ cacheFile' = UnlinkCache(cacheFile, unlinked)
                 /\ flUnlink' = UnlinkOutcome(cacheFile, unlinked)
                 /\ flAttempt' = 2
                 /\ LET cached == GetCachedToken(cacheFile', nowMs) IN
                    IF cached # NoToken
                    THEN /\ flToken' = cached
                         /\ flPc' = "request"
                         /\ UNCHANGED flReauth
                    ELSE /\ flPc' = "auth"
                         /\ flReauth' = flReauth + 1
                         /\ UNCHANGED flToken
                 /\ UNCHANGED flPayload
            ELSE /\ flPc' = "threw"
                 /\ UNCHANGED <<flAttempt, flToken, flReauth, flUnlink, flPayload,
                                cacheFile>>
    /\ UNCHANGED <<flStarted, nowMs, issued, authLog, lastSave, calls, ticks, linkFrame>>

(* main: await downloadAndExtractZoneFiles(downloadLinks).  The loop takes the
   elements in order; path.basename(url) throws a TypeError at the first
   element that is not a string, after the elements before it were processed *)
FlMainProcesses ==
    /\ flPc = "returned"
    /\ flStarted' = (flPayload \in {"strings", "mixed"})
    /\ flPc' = IF flPayload = "strings" THEN "processed" ELSE "threw"
    /\ UNCHANGED <<flAttempt, flToken, flSent, flStatus, flReauth, flUnlink, flPayload,
                   credVars, linkFrame>>

NextLinks ==
    \/ FlGetValidToken
    \/ FlAuthOk
    \/ FlAuthThrows
    \/ FlResponse
    \/ FlMainProcesses

----------------------------------------------------------------------------
(* Domain extraction: processZoneFile of centralized-zone.ts and the loop of
   extractAndProcessFile / downloadAndProcessZone with extractDomainFromLine
   of jobs/centralized-zone.mts.  A string is the sequence of its UTF-16 code
   units. *)

MaxLen == 4

LF == 10
SP == 32
DOLLAR == 36
DOT == 46
SEMI == 59
UpperA == 65
LowerA == 97

Chars == {LF, SP, DOLLAR, DOT, SEMI, UpperA, LowerA}

ZoneTexts == UNION {[1..n -> Chars] : n \in 0..MaxLen}

(* what String.prototype.trim and /\s+/ take for white space *)
IsSpace(c) == c \in {SP, LF}

SetMin(S) == CHOOSE j \in S : \A m \in S : j <= m

SetMax(S) == CHOOSE j \in S : \A m \in S : j >= m

(* content.split("\n") *)
RECURSIVE Split(_)
Split(text) ==
    LET at == {j \in 1..Len(text) : text[j] = LF} IN
    IF at = {} THEN <<text>>
    ELSE <<SubSeq(text, 1, SetMin(at) - 1)>>
         \o Split(SubSeq(text, SetMin(at) + 1, Len(text)))

(* line.trim() *)
Trim(line) ==
    LET ink == {j \in 1..Len(line) : ~IsSpace(line[j])} IN
    IF ink = {} THEN <<>> ELSE SubSeq(line, SetMin(ink), SetMax(ink))

(* line.trim().split(/\s+/)[0] *)
FirstField(line) ==
    LET t == Trim(line)
        gaps == {j \in 1..Len(t) : IsSpace(t[j])} IN
    IF gaps = {} THEN t ELSE SubSeq(t, 1, SetMin(gaps) - 1)

(* s.toLowerCase() *)
ToLowerCase(s) ==
    IF s = <<>> THEN <<>>
    ELSE [j \in 1..Len(s) |-> IF s[j] = UpperA THEN LowerA ELSE s[j]]

(* s.startsWith(c) *)
StartsWith(s, c) == Len(s) >= 1 /\ s[1] = c

(* s.endsWith(c) *)
EndsWith(s, c) == Len(s) >= 1 /\ s[Len(s)] = c

(* domain.endsWith(".") ? domain.slice(0, -1) : domain *)
StripDot(domain) ==
    IF EndsWith(domain, DOT) THEN SubSeq(domain, 1, Len(domain) - 1) ELSE domain

(* the test of processZoneFile that skips a line: the empty test is on the
   trimmed line, the two startsWith on the line as it is *)
SkipsTs(line) ==
    Trim(line) = <<>> \/ StartsWith(line, SEMI) \/ StartsWith(line, DOLLAR)

(* the test of the loops of the job *)
SkipsJob(line) ==
    Trim(line) = <<>> \/ StartsWith(line, SEMI)

(* the domain a line that is not skipped adds; <<>>: none, the empty string
   is never added *)
ExtractDomainFromLine(line) ==
    LET domain == StripDot(ToLowerCase(FirstField(line))) IN
    IF domain # <<>> /\ ~StartsWith(domain, SEMI) THEN domain ELSE <<>>

(* the domain a line contributes *)
DomainOf(impl, line) ==
    IF (impl = "ts" /\ SkipsTs(line)) \/ (impl = "job" /\ SkipsJob(line))
    THEN <<>>
    ELSE ExtractDomainFromLine(line)

(* Set.prototype.add: the Set keeps insertion order and no duplicate *)
SetAdd(set, domain) ==
    IF \E j \in 1..Len(set) : set[j] = domain THEN set ELSE Append(set, domain)

(* the loop over the lines *)
RECURSIVE Collect(_, _, _)
Collect(impl, lines, set) ==
    IF lines = <<>> THEN set
    ELSE LET domain == DomainOf(impl, Head(lines)) IN
         Collect(impl, Tail(lines),
                 IF domain = <<>> THEN set ELSE SetAdd(set, domain))

(* a < b as Array.prototype.sort compares strings: by code units *)
StrLess(a, b) ==
    LET n == Min(Len(a), Len(b))
        diff == {j \in 1..n : a[j] # b[j]} IN
    IF diff = {} THEN Len(a) < Len(b)
    ELSE a[SetMin(diff)] < b[SetMin(diff)]

(* the place of x in a sorted list *)
RECURSIVE Insert(_, _)
Insert(x, sorted) ==
    IF sorted = <<>> THEN <<x>>
    ELSE IF StrLess(Head(sorted), x) THEN <<Head(sorted)>> \o Insert(x, Tail(sorted))
    ELSE <<x>> \o sorted

(* Array.from(domains).sort() *)
RECURSIVE Sort(_)
Sort_InsertionOrder(list) == list
Sort(list) ==
    IF list = <<>> THEN <<>> ELSE Insert(Head(list), Sort(Tail(list)))

(* list.join("\n") *)
RECURSIVE Join(_)
Join(list) ==
    IF list = <<>> THEN <<>>
    ELSE IF Len(list) = 1 THEN Head(list)
    ELSE Head(list) \o <<LF>> \o Join(Tail(list))

InitExtract ==
    /\ exImpl \in {"ts", "job"}
    /\ exInput \in ZoneTexts
    /\ exPc = "ready"
    /\ exDomains = <<>>
    /\ exOutput = NoFile
    /\ exPass = 1
    /\ exFirst = [domains |-> <<>>, output |-> NoFile]

IdleExtract ==
    /\ exImpl = "off"
    /\ exInput = <<>>
    /\ exPc = "off"
    /\ exDomains = <<>>
    /\ exOutput = NoFile
    /\ exPass = 1
    /\ exFirst = [domains |-> <<>>, output |-> NoFile]

(* processZoneFile(txtPath): readFileSync, the loop, sort, join, writeFileSync *)
ProcessZoneFile ==
    /\ exImpl = "ts"
    /\ exPc = "ready"
    /\ exDomains' = Collect("ts", Split(exInput), <<>>)
    /\ exOutput' = Join(Sort(exDomains'))
    /\ exPc' = "done"
    /\ UNCHANGED <<exImpl, exInput, exPass, exFirst, extractFrame>>

(* extractAndProcessFile from content on: the loop, sort, join, writeFileSync *)
ExtractLoopJob ==
    /\ exImpl = "job"
    /\ exPc = "ready"
    /\ exDomains' = Collect("job", Split(exInput), <<>>)
    /\ exOutput' = Join(Sort(exDomains'))
    /\ exPc' = "done"
    /\ UNCHANGED <<exImpl, exInput, exPass, exFirst, extractFrame>>

(* the extraction is run on the file it wrote *)
ExtractAgain ==
    /\ exPc = "done"
    /\ exPass = 1
    /\ exFirst' = [domains |-> exDomains, output |-> exOutput]
    /\ exInput' = exOutput
    /\ exPass' = 2
    /\ exPc' = "ready"
    /\ UNCHANGED <<exImpl, exDomains, exOutput, extractFrame>>

NextExtract ==
    \/ ProcessZoneFile
    \/ ExtractLoopJob
    \/ ExtractAgain

----------------------------------------------------------------------------
(* The getValidToken calls of the work items of one batch, which run
   concurrently: downloadFile and downloadAndProcessZone of
   jobs/centralized-zone.mts each start with await getValidToken() *)

MaxCallers == 2

Callers == 1..MaxCallers

(* tokenCache = { accessToken, expiresAt } *)
StoreToken_KeepFirst(cache, token, expiresAt) ==
    IF cache # NoCache THEN cache
    ELSE [state |-> "json", accessToken |-> token, expiresAt |-> expiresAt]
StoreToken(cache, token, expiresAt) ==
    [state |-> "json", accessToken |-> token, expiresAt |-> expiresAt]

(* tokenCache when the batch starts: null, or what an earlier getValidToken
   of the job stored: a token that is still good, or one that has expired *)
PriorTokenCaches ==
    { NoCache,
      StoreToken(NoCache, Token(0, "jwt", 3600), 3600000),
      StoreToken(NoCache, Token(0, "jwt", 0), 0) }

InitRace ==
    /\ gcPc = [c \in Callers |-> "call"]
    /\ gcResp = [c \in Callers |-> NoToken]
    /\ gcToken = [c \in Callers |-> NoToken]
    /\ gcFromCache = [c \in Callers |-> FALSE]
    /\ gcDone = <<>>

IdleRace ==
    /\ gcPc = <<>>
    /\ gcResp = <<>>
    /\ gcToken = <<>>
    /\ gcFromCache = <<>>
    /\ gcDone = <<>>

(* the call runs to its first await: the cached token is returned, or the
   authentication request is sent *)
GcCall(c) ==
    /\ gcPc[c] = "call"
    /\ IF tokenCache # NoCache /\ ~IsTokenExpiredJob(tokenCache.accessToken, nowMs)
       THEN /\ gcToken' = [gcToken EXCEPT ![c] = tokenCache.accessToken]
            /\ gcFromCache' = [gcFromCache EXCEPT ![c] = TRUE]
            /\ gcPc' = [gcPc EXCEPT ![c] = "returned"]
       ELSE /\ gcPc' = [gcPc EXCEPT ![c] = "fetching"]
            /\ UNCHANGED <<gcToken, gcFromCache>>
    /\ UNCHANGED <<gcResp, gcDone, tokenCache, issued, raceFrame>>

(* await fetchWithRetry(AUTH_URL, ...) resolves with the response *)
GcAuthResponds(c) ==
    /\ gcPc[c] = "fetching"
    /\ \E token \in IssuedTokens(issued + 1, nowMs) :
         gcResp' = [gcResp EXCEPT ![c] = token]
    /\ issued' = issued + 1
    /\ gcPc' = [gcPc EXCEPT ![c] = "parsing"]
    /\ UNCHANGED <<gcToken, gcFromCache, gcDone, tokenCache, raceFrame>>

(* fetchWithRetry throws: this call of getValidToken throws *)
GcAuthThrows(c) ==
    /\ gcPc[c] = "fetching"
    /\ gcPc' = [gcPc EXCEPT ![c] = "threw"]
    /\ UNCHANGED <<gcResp, gcToken, gcFromCache, gcDone, tokenCache, issued, raceFrame>>

(* await response.json() settles: tokenCache is assigned and the token of
   this response is returned; a body that is no JSON makes the call throw *)
GcAuthCompletes(c) ==
    /\ gcPc[c] = "parsing"
    /\ \E parsed \in BOOLEAN, expiresIn \in {300, 3600} :
         IF parsed
         THEN /\ tokenCache' = StoreToken(tokenCache, gcResp[c], nowMs + expiresIn * 1000)
              /\ gcToken' = [gcToken EXCEPT ![c] = gcResp[c]]
              /\ gcDone' = Append(gcDone, c)
              /\ gcPc' = [gcPc EXCEPT ![c] = "returned"]
         ELSE /\ gcPc' = [gcPc EXCEPT ![c] = "threw"]
              /\ UNCHANGED <<tokenCache, gcToken, gcDone>>
    /\ UNCHANGED <<gcResp, gcFromCache, issued, raceFrame>>

NextRace ==
    \/ \E c \in Callers : GcCall(c)
    \/ \E c \in Callers : GcAuthResponds(c)
    \/ \E c \in Callers : GcAuthThrows(c)
    \/ \E c \in Callers : GcAuthCompletes(c)

----------------------------------------------------------------------------
(* The paths a work item of processZoneFilesToLocal derives from its link *)

MaxUrlLen == 3

SLASH == 47
LowerD == 100
LowerT == 116
LowerX == 120

UrlChars == {SLASH, DOT, LowerA, LowerT}

Urls == UNION {[1..n -> UrlChars] : n \in 1..MaxUrlLen}

(* DATA_DIR and the directory above it *)
DataDir == <<SLASH, LowerD, SLASH, LowerD>>

DataDirParent == <<SLASH, LowerD>>

(* path.basename(url): the trailing slashes are dropped, then what follows
   the last slash *)
Basename(url) ==
    LET ink == {j \in 1..Len(url) : url[j] # SLASH} IN
    IF ink = {} THEN <<>>
    ELSE LET end == SetMax(ink)
             cuts == {j \in 1..end : url[j] = SLASH}
             start == IF cuts = {} THEN 1 ELSE SetMax(cuts) + 1 IN
         SubSeq(url, start, end)

(* filename.split(".")[0] *)
TldOf_WholeName(filename) == filename
TldOf(filename) ==
    LET dots == {j \in 1..Len(filename) : filename[j] = DOT} IN
    IF dots = {} THEN filename ELSE SubSeq(filename, 1, SetMin(dots) - 1)

(* path.join(DATA_DIR, name): "" and "." name the directory, ".." the one
   above it *)
PathJoin(name) ==
    IF name = <<>> \/ name = <<DOT>> THEN DataDir
    ELSE IF name = <<DOT, DOT>> THEN DataDirParent
    ELSE DataDir \o <<SLASH>> \o name

(* `${tld}.txt` *)
TxtName(tld) == tld \o <<DOT, LowerT, LowerX, LowerT>>

InitPaths ==
    /\ urls \in {pair \in [1..2 -> Urls] : pair[1] # pair[2]}
    /\ gzPath = [k \in 1..2 |-> NoFile]
    /\ txtPath = [k \in 1..2 |-> NoFile]

IdlePaths ==
    /\ urls = <<>>
    /\ gzPath = <<>>
    /\ txtPath = <<>>

(* the processor up to its try block: filename, gzPath, tld, txtPath *)
DerivePaths(k) ==
    /\ gzPath[k] = NoFile
    /\ gzPath' = [gzPath EXCEPT ![k] = PathJoin(Basename(urls[k]))]
    /\ txtPath' = [txtPath EXCEPT ![k] = PathJoin(TxtName(TldOf(Basename(urls[k]))))]
    /\ UNCHANGED <<urls, pathFrame>>

NextPaths == \E k \in 1..2 : DerivePaths(k)

----------------------------------------------------------------------------
(* main of centralized-zone.ts and processCentralizedZone of the job: the
   steps before the links are processed *)

InitMain ==
    /\ mainImpl \in {"ts", "job"}
    /\ mainPc = IF mainImpl = "ts" THEN "token" ELSE "links"
    /\ mainListed = "none"

IdleMain ==
    /\ mainImpl = "off"
    /\ mainPc = "off"
    /\ mainListed = "none"

(* fetchDownloadLinks returned the array *)
ListReturned_Always(result) == TRUE
ListReturned(result) == result = "list"

(* main: const token = await getValidToken(); a throw goes to the catch of
   main: process.exit(1) *)
MainGetValidToken ==
    /\ mainImpl = "ts"
    /\ mainPc = "token"
    /\ \E ok \in BOOLEAN :
         IF ok
         THEN /\ mainPc' = "links"
              /\ UNCHANGED <<tsError, tsExitCode, tsPc>>
         ELSE /\ mainPc' = "failed"
              /\ TsFail("token")
    /\ UNCHANGED <<mainImpl, mainListed, tsLinks, tsI, tsGz, tsTxt, tsGunzipArg,
                   tsUnlinkFailed, mainFrame>>

(* main: const downloadLinks = await fetchDownloadLinks(); then
   downloadAndExtractZoneFiles(downloadLinks) *)
MainFetchDownloadLinks ==
    /\ mainImpl = "ts"
    /\ mainPc = "links"
    /\ \E result \in {"list", "threw"} :
         /\ mainListed' = result
         /\ IF ListReturned(result)
            THEN /\ mainPc' = "process"
                 /\ UNCHANGED <<tsError, tsExitCode, tsPc>>
            ELSE /\ mainPc' = "failed"
                 /\ TsFail("links")
    /\ UNCHANGED <<mainImpl, tsLinks, tsI, tsGz, tsTxt, tsGunzipArg,
                   tsUnlinkFailed, mainFrame>>

(* processCentralizedZone: const downloadLinks = await fetchDownloadLinks();
   a throw is logged and thrown again; else the links are processed *)
JobFetchDownloadLinks ==
    /\ mainImpl = "job"
    /\ mainPc = "links"
    /\ \E result \in {"list", "threw"} :
         /\ mainListed' = result
         /\ mainPc' = IF ListReturned(result) THEN "process" ELSE "failed"
    /\ UNCHANGED <<mainImpl, scriptVars, mainFrame>>

(* downloadAndExtractZoneFiles of the script *)
MainProcessesLinks ==
    /\ mainImpl = "ts"
    /\ mainPc = "process"
    /\ NextScript

(* processZoneFilesToDatabase or processZoneFilesToLocal of the job *)
JobProcessesLinks ==
    /\ mainImpl = "job"
    /\ mainPc = "process"
    /\ NextBatch

NextMain ==
    \/ MainGetValidToken
    \/ MainFetchDownloadLinks
    \/ JobFetchDownloadLinks
    \/ MainProcessesLinks
    \/ JobProcessesLinks

----------------------------------------------------------------------------
(* downloadFile of centralized-zone.ts: the response body is piped to a write
   stream; the promise it returns is settled by the handlers of the write
   stream only *)

InitStream ==
    /\ dlPc = "idle"
    /\ dlBody = "none"
    /\ dlFile = "none"
    /\ dlData = <<>>
    /\ dlWritten = 0

IdleStream ==
    /\ dlPc = "off"
    /\ dlBody = "none"
    /\ dlFile = "none"
    /\ dlData = <<>>
    /\ dlWritten = 0

(* the promise of the call is resolved or rejected *)
DlSettled == dlPc \in {"resolved", "rejected"}

(* await downloadFile(url, gzPath) of the loop: the call starts with
   getValidTokenWithRetry() and fetch(url, ...) *)
DlCall ==
    /\ tsPc = "download"
    /\ dlPc \in {"idle", "resolved"}
    /\ dlPc' = "fetching"
    /\ dlBody' = "none"
    /\ dlFile' = "none"
    /\ dlData' = <<>>
    /\ dlWritten' = 0
    /\ UNCHANGED <<scriptVars, streamFrame>>

(* the token and the response have arrived, or one of them threw.  not ok, no
   body, or a throw: the catch unlinks and the call rejects.  ok with a body:
   fs.createWriteStream(outputPath), body.pipe(fileStream), and the promise
   with the "finish" and "error" handlers of fileStream is returned *)
DlResponse ==
    /\ dlPc = "fetching"
    /\ \E arrived \in {"ok", "status", "no-body", "threw"} :
         IF arrived = "ok"
         THEN /\ \E data \in Artifacts : dlData' = data
              /\ dlPc' = "piping"
              /\ dlBody' = "flowing"
              /\ dlFile' = "open"
              /\ tsGz' = [tsGz EXCEPT ![tsI] = <<>>]
              /\ UNCHANGED <<tsPc, tsError, tsExitCode, tsUnlinkFailed>>
         ELSE /\ dlPc' = "rejected"
              /\ TsUnlinkGz
              /\ TsFail("download")
              /\ UNCHANGED <<dlBody, dlFile, dlData>>
    /\ UNCHANGED <<dlWritten, tsLinks, tsI, tsTxt, tsGunzipArg, streamFrame>>

(* a chunk of the body goes through the pipe into the file *)
DlBodyData ==
    /\ dlPc = "piping"
    /\ dlBody = "flowing"
    /\ dlFile = "open"
    /\ dlWritten < Len(dlData)
    /\ dlWritten' = dlWritten + 1
    /\ tsGz' = [tsGz EXCEPT ![tsI] = SubSeq(dlData, 1, dlWritten + 1)]
    /\ UNCHANGED <<dlPc, dlBody, dlFile, dlData, tsLinks, tsI, tsPc, tsTxt, tsGunzipArg,
                   tsError, tsExitCode, tsUnlinkFailed, streamFrame>>

(* the body emits "end": pipe calls fileStream.end() *)
DlBodyEnds ==
    /\ dlPc = "piping"
    /\ dlBody = "flowing"
    /\ dlWritten = Len(dlData)
    /\ dlBody' = "ended"
    /\ UNCHANGED <<dlPc, dlFile, dlData, dlWritten, scriptVars, streamFrame>>

(* the body emits "error" mid-transfer (connection reset, premature close).
   pipe does not forward it: fileStream is neither ended nor destroyed, and
   downloadFile has no handler on body.  With an "error" listener on the
   stream (that of the fetch library) nothing else happens; with none the
   event is thrown as an uncaught exception and the process dies *)
DlBodyErrors ==
    /\ dlPc = "piping"
    /\ dlBody = "flowing"
    /\ dlFile = "open"
    /\ dlBody' = "errored"
    /\ \E listened \in BOOLEAN :
         IF listened
         THEN UNCHANGED <<dlPc, tsPc, tsError, tsExitCode>>
         ELSE /\ dlPc' = "crashed"
              /\ tsPc' = "exited"
              /\ tsError' = "uncaught"
              /\ tsExitCode' = 1
    /\ UNCHANGED <<dlFile, dlData, dlWritten, tsLinks, tsI, tsGz, tsTxt, tsGunzipArg,
                   tsUnlinkFailed, streamFrame>>

(* fileStream.on("finish"): close and resolve; the loop goes on to statSync *)
DlFileFinish ==
    /\ dlPc = "piping"
    /\ dlBody = "ended"
    /\ dlFile = "open"
    /\ dlFile' = "finished"
    /\ dlPc' = "resolved"
    /\ tsPc' = "stat"
    /\ UNCHANGED <<dlBody, dlData, dlWritten, tsLinks, tsI, tsGz, tsTxt, tsGunzipArg,
                   tsError, tsExitCode, tsUnlinkFailed, streamFrame>>

(* fileStream.on("error"): unlink and reject; the catch of the loop throws
   the error on *)
DlFileError ==
    /\ dlPc = "piping"
    /\ dlFile = "open"
    /\ dlFile' = "errored"
    /\ dlPc' = "rejected"
    /\ TsUnlinkGz
    /\ TsFail("download")
    /\ UNCHANGED <<dlBody, dlData, dlWritten, tsLinks, tsI, tsTxt, tsGunzipArg,
                   streamFrame>>

(* the steps of the loop after the download *)
DlLoopGoesOn ==
    /\ tsPc # "download"
    /\ NextScript

NextDownload ==
    \/ DlCall
    \/ DlResponse
    \/ DlBodyData
    \/ DlBodyEnds
    \/ DlBodyErrors
    \/ DlFileFinish
    \/ DlFileError
    \/ DlLoopGoesOn

----------------------------------------------------------------------------
(* processRootZone, jobs/root-zone.mts *)

(* fetchTlds, fetchRdapBootstrap, fetchDnssecData *)
Fetches == {"tld", "rdap", "dnssec"}

(* the TLDs of the tables, and the longest TLD table *)
TldNames == {1, 2}

MaxRows == 2

RowLists == UNION {[1..n -> TldNames] : n \in 0..MaxRows}

(* the files of saveLocalFiles, in the order of its statements *)
RootFiles ==
    <<"tld.json", "tld.csv", "rdap.json", "rdap.csv", "dnssec.json", "dnssec.csv",
      "combined.json", "combined.csv">>

(* await Promise.all([...]) is fulfilled: every one of the three is *)
AllFetched_Any(fetch) == \E f \in Fetches : fetch[f] = "ok"
AllFetched(fetch) == \A f \in Fetches : fetch[f] = "ok"

(* mergeData: tldRows.map(...), a row for each row, with the RDAP and DNSSEC
   entries looked up by name *)
MergeData(tldRows, rdapMap, dnssecMap, db) ==
    [k \in 1..Len(tldRows) |->
       [domain |-> tldRows[k], rdap |-> tldRows[k] \in rdapMap,
        dnssec |-> tldRows[k] \in dnssecMap, search |-> db]]

(* tldRows.slice(i, i + CONCURRENCY_LIMIT), as positions *)
RzBatch == {k \in 1..Len(rzRows) : rzI < k /\ k <= rzI + rzLimit}

InitRoot ==
    /\ rzPc = "fetching"
    /\ rzDb \in BOOLEAN
    /\ rzLimit \in 1..MaxBatch
    /\ rzFetch = [f \in Fetches |-> "pending"]
    /\ rzRows = <<>>
    /\ rzRdap = {}
    /\ rzDnssec = {}
    /\ rzCombined = <<>>
    /\ rzFiles = <<>>
    /\ rzTables = FALSE
    /\ rzI = 0
    /\ rzQuery = <<>>

IdleRoot ==
    /\ rzPc = "off"
    /\ rzDb = FALSE
    /\ rzLimit = 1
    /\ rzFetch = [f \in Fetches |-> "pending"]
    /\ rzRows = <<>>
    /\ rzRdap = {}
    /\ rzDnssec = {}
    /\ rzCombined = <<>>
    /\ rzFiles = <<>>
    /\ rzTables = FALSE
    /\ rzI = 0
    /\ rzQuery = <<>>

(* one of the three fetches settles, in any order, also after Promise.all
   has rejected *)
RzFetchSettles(f) ==
    /\ rzPc \in {"fetching", "threw"}
    /\ rzFetch[f] = "pending"
    /\ \E ok \in BOOLEAN :
         /\ rzFetch' = [rzFetch EXCEPT ![f] = IF ok THEN "ok" ELSE "failed"]
         /\ IF ok /\ f = "tld"
            THEN \E rows \in RowLists : rzRows' = rows
            ELSE UNCHANGED rzRows
         /\ IF ok /\ f = "rdap"
            THEN \E tlds \in SUBSET TldNames : rzRdap' = tlds
            ELSE UNCHANGED rzRdap
         /\ IF ok /\ f = "dnssec"
            THEN \E tlds \in SUBSET TldNames : rzDnssec' = tlds
            ELSE UNCHANGED rzDnssec
    /\ UNCHANGED <<rzPc, rzDb, rzLimit, rzCombined, rzFiles, rzTables, rzI, rzQuery,
                   rootFrame>>

(* await Promise.all: rejected with the first failure, processRootZone
   throws; fulfilled: createRdapMap (throws on services of another shape)
   and mergeData *)
RzAwaitAll ==
    /\ rzPc = "fetching"
    /\ IF \E f \in Fetches : rzFetch[f] = "failed"
       THEN /\ rzPc' = "threw"
            /\ UNCHANGED rzCombined
       ELSE /\ AllFetched(rzFetch)
            /\ \E shaped \in BOOLEAN :
                 IF shaped
                 THEN /\ rzCombined' = MergeData(rzRows, rzRdap, rzDnssec, rzDb)
                      /\ rzPc' = "save"
                 ELSE /\ rzPc' = "threw"
                      /\ UNCHANGED rzCombined
    /\ UNCHANGED <<rzDb, rzLimit, rzFetch, rzRows, rzRdap, rzDnssec, rzFiles, rzTables,
                   rzI, rzQuery, rootFrame>>

(* saveLocalFiles, synchronous: the eight files in order; a write that
   throws leaves the files before it and processRootZone throws *)
RzSaveLocalFiles ==
    /\ rzPc = "save"
    /\ \E n \in 0..Len(RootFiles) :
         /\ rzFiles' = SubSeq(RootFiles, 1, n)
         /\ rzPc' = IF n < Len(RootFiles) THEN "threw"
                    ELSE IF rzDb THEN "tables" ELSE "done"
    /\ UNCHANGED <<rzDb, rzLimit, rzFetch, rzRows, rzRdap, rzDnssec, rzCombined, rzTables,
                   rzI, rzQuery, rootFrame>>

(* saveToDatabase: await db.initializeTables() *)
RzInitializeTables ==
    /\ rzPc = "tables"
    /\ \E ok \in BOOLEAN :
         IF ok
         THEN /\ rzTables' = TRUE
              /\ rzQuery' = [k \in 1..Len(rzRows) |-> "none"]
              /\ rzPc' = "loop"
         ELSE /\ rzPc' = "threw"
              /\ UNCHANGED <<rzTables, rzQuery>>
    /\ UNCHANGED <<rzDb, rzLimit, rzFetch, rzRows, rzRdap, rzDnssec, rzCombined, rzFiles,
                   rzI, rootFrame>>

(* the loop of saveToDatabase: batch.map(async ...) sends the INSERT of
   every row of the batch; after the last batch the function returns *)
RzStartBatch ==
    /\ rzPc = "loop"
    /\ IF rzI < Len(rzRows)
       THEN /\ rzQuery' = [k \in 1..Len(rzRows) |->
                             IF k \in RzBatch THEN "sent" ELSE rzQuery[k]]
            /\ rzPc' = "await"
       ELSE /\ rzPc' = "done"
            /\ UNCHANGED rzQuery
    /\ UNCHANGED <<rzDb, rzLimit, rzFetch, rzRows, rzRdap, rzDnssec, rzCombined, rzFiles,
                   rzTables, rzI, rootFrame>>

(* client.query of row k settles; a failure is caught and counted *)
RzQuerySettles(k) ==
    /\ rzPc = "await"
    /\ rzQuery[k] = "sent"
    /\ \E ok \in BOOLEAN :
         rzQuery' = [rzQuery EXCEPT ![k] = IF ok THEN "ok" ELSE "failed"]
    /\ UNCHANGED <<rzPc, rzDb, rzLimit, rzFetch, rzRows, rzRdap, rzDnssec, rzCombined,
                   rzFiles, rzTables, rzI, rootFrame>>

(* await Promise.all(batchPromises); i += CONCURRENCY_LIMIT *)
RzAwaitBatch ==
    /\ rzPc = "await"
    /\ \A k \in RzBatch : rzQuery[k] \in {"ok", "failed"}
    /\ rzI' = rzI + rzLimit
    /\ rzPc' = "loop"
    /\ UNCHANGED <<rzDb, rzLimit, rzFetch, rzRows, rzRdap, rzDnssec, rzCombined, rzFiles,
                   rzTables, rzQuery, rootFrame>>

NextRoot ==
    \/ \E f \in Fetches : RzFetchSettles(f)
    \/ RzAwaitAll
    \/ RzSaveLocalFiles
    \/ RzInitializeTables
    \/ RzStartBatch
    \/ \E k \in 1..Len(rzRows) : RzQuerySettles(k)
    \/ RzAwaitBatch

IdleRest == IdleMain /\ IdleStream /\ IdleRoot

(* the parts that are not running *)
IdleOtherParts == IdleExtract /\ IdleRace /\ IdlePaths /\ IdleRest

----------------------------------------------------------------------------
(* Further acquisitions: every downloadFile asks for a token again, some
   time after the one before *)

MaxCalls == 2
MaxTicks == 2

(* the clock moves before an acquisition starts *)
Tick ==
    /\ (rtPc = "loop" /\ retryCount = 0) \/ mtPc = "call"
    /\ ticks < MaxTicks
    /\ ticks' = ticks + 1
    /\ \E d \in {1, 999} : nowMs' = nowMs + d
    /\ UNCHANGED <<cacheFile, issued, authLog, lastSave, calls, retryVars, fetchVars,
                   jobTokenVars, linkVars, batchVars, scriptVars, otherVars>>

(* downloadFile of the script: const token = await getValidTokenWithRetry() *)
RtCallAgain ==
    /\ rtPc = "returned"
    /\ calls < MaxCalls
    /\ calls' = calls + 1
    /\ retryCount' = 0
    /\ waits' = <<>>
    /\ authLog' = <<>>
    /\ lastSave' = "none"
    /\ rtToken' = NoToken
    /\ rtFromCache' = FALSE
    /\ rtPc' = "loop"
    /\ UNCHANGED <<maxRetries, rtError, nowMs, cacheFile, issued, ticks, retryFrame>>

(* downloadFile of the job: const token = await getValidToken() *)
MtCallAgain ==
    /\ mtPc = "returned"
    /\ calls < MaxCalls
    /\ calls' = calls + 1
    /\ mtToken' = NoToken
    /\ mtFromCache' = FALSE
    /\ mtPc' = "call"
    /\ UNCHANGED <<tokenCache, fetchVars, nowMs, cacheFile, issued, authLog, lastSave,
                   ticks, jobTokenFrame>>

IdleTokens ==
    /\ InitCred /\ cacheFile = NoCache
    /\ IdleRetry /\ InitFetch /\ IdleJobToken /\ IdleLinks

----------------------------------------------------------------------------
(* Specifications *)

(* the batched job alone *)
InitJob == InitBatch /\ IdleScript /\ IdleTokens /\ IdleOtherParts

SpecBatch == InitJob /\ [][NextBatch]_vars

(* one of the two pipelines: the batched job or the sequential script *)
InitPipelines ==
    /\ (InitBatch /\ IdleScript) \/ (IdleBatch /\ InitScript)
    /\ IdleTokens
    /\ IdleOtherParts

SpecPipelines == InitPipelines /\ [][NextBatch \/ NextScript]_vars

(* token acquisition: getValidTokenWithRetry of the script, or getValidToken
   of the job over fetchWithRetry *)
InitTokens ==
    /\ IdleBatch /\ IdleScript
    /\ InitCred /\ InitFetch /\ IdleLinks
    /\ (InitRetry /\ IdleJobToken) \/ (IdleRetry /\ InitJobToken /\ cacheFile = NoCache)
    /\ IdleOtherParts

SpecTokens ==
    InitTokens /\ [][NextRetry \/ NextJobToken \/ Tick \/ RtCallAgain \/ MtCallAgain]_vars

(* one call of fetchDownloadLinks of the script *)
InitLinkList ==
    /\ IdleBatch /\ IdleScript
    /\ InitCred /\ InitFetch /\ IdleRetry /\ IdleJobToken
    /\ InitLinks
    /\ IdleOtherParts

(* the extraction of the domains of one zone text, and once more on its output *)
InitExtraction ==
    /\ IdleBatch /\ IdleScript /\ IdleTokens
    /\ InitExtract /\ IdleRace /\ IdlePaths /\ IdleRest

SpecExtract == InitExtraction /\ [][NextExtract]_vars

(* the getValidToken calls of the work items of one batch *)
InitCallers ==
    /\ IdleBatch /\ IdleScript
    /\ InitCred /\ cacheFile = NoCache
    /\ InitFetch /\ IdleRetry /\ IdleLinks /\ IdleExtract
    /\ mtPc = "off" /\ mtToken = NoToken /\ mtFromCache = FALSE
    /\ tokenCache \in PriorTokenCaches
    /\ InitRace /\ IdlePaths /\ IdleRest

SpecRace == InitCallers /\ [][NextRace]_vars

(* two work items of a batch derive their paths *)
InitWorkItems ==
    /\ IdleBatch /\ IdleScript /\ IdleTokens
    /\ IdleExtract /\ IdleRace
    /\ InitPaths /\ IdleRest

SpecPaths == InitWorkItems /\ [][NextPaths]_vars

SpecLinks == InitLinkList /\ [][NextLinks]_vars

(* the batched job with any CONCURRENCY_LIMIT; every continuation that can
   run is run *)
InitLimits == InitBatchEnv /\ IdleScript /\ IdleTokens /\ IdleOtherParts

SpecLimits == InitLimits /\ [][NextBatch]_vars /\ WF_vars(NextBatch)

(* the largest maxRetries a call of fetchWithRetry is given *)
MaxRetriesArg == 3

(* one call of fetchWithRetry(url, options, maxRetries), up to its first
   request *)
InitFetchCall ==
    /\ IdleBatch /\ IdleScript
    /\ InitCred /\ IdleRetry /\ IdleJobToken /\ IdleLinks
    /\ fwMaxRetries \in 0..MaxRetriesArg
    /\ fwRetryCount = 0
    /\ fwPc = "request"
    /\ fwLog = <<>>
    /\ fwSleeps = 0
    /\ fwError = NoError
    /\ cacheFile = NoCache
    /\ IdleOtherParts

NextFetch ==
    \/ FwResponse
    \/ FwSleepDone

(* every request settles and every timer fires *)
SpecFetch ==
    InitFetchCall /\ [][NextFetch]_vars /\ WF_vars(FwResponse) /\ WF_vars(FwSleepDone)

(* the downloads of the script, stream by stream.  The fetch settles, the
   body ends or fails, an ended write stream finishes and the loop runs; a
   write error is not bound to happen *)
InitDownload ==
    /\ IdleBatch /\ InitScript /\ IdleTokens
    /\ IdleExtract /\ IdleRace /\ IdlePaths
    /\ IdleMain /\ InitStream /\ IdleRoot

SpecDownload ==
    /\ InitDownload /\ [][NextDownload]_vars
    /\ WF_vars(DlCall) /\ WF_vars(DlResponse) /\ WF_vars(DlBodyData)
    /\ WF_vars(DlBodyEnds \/ DlBodyErrors)
    /\ WF_vars(DlFileFinish) /\ WF_vars(DlLoopGoesOn)

(* one call of processRootZone *)
InitRootZone ==
    /\ IdleBatch /\ IdleScript /\ IdleTokens
    /\ IdleExtract /\ IdleRace /\ IdlePaths
    /\ IdleMain /\ IdleStream /\ InitRoot

SpecRoot == InitRootZone /\ [][NextRoot]_vars

(* a whole run: main of the script, or processCentralizedZone of the job *)
InitRun ==
    /\ (mainImpl = "ts" /\ IdleBatch /\ InitScript) \/ (mainImpl = "job" /\ InitBatch /\ IdleScript)
    /\ InitMain /\ IdleStream /\ IdleRoot
    /\ IdleTokens
    /\ IdleExtract /\ IdleRace /\ IdlePaths

SpecMain == InitRun /\ [][NextMain]_vars

----------------------------------------------------------------------------
(* Claims about the batched job *)

(* the batch a link belongs to, counted from 0 *)
BatchOf(k) == (k - 1) \div batchSize

NumBatches == (downloadLinks + batchSize - 1) \div batchSize

(* one delay per batch but the last *)
NumDelays == IF NumBatches = 0 THEN 0 ELSE NumBatches - 1

Failing == {k \in Links : threw[k] # "none"}

(* C1: whatever subset of the links throws in download, decompression,
   extraction or saving, processInBatches never throws, it stops only by
   returning, and then there is one outcome per link, in order, whose
   success flag is false exactly for the links that threw: every other link
   succeeded and the number of failed outcomes is the number of failing
   links. *)
C1_FailuresIsolated ==
    /\ runnerPc # "threw"
    /\ (runnerPc # "returned" => ENABLED NextBatch)
    /\ runnerPc = "returned" =>
         /\ Len(results) = downloadLinks
         /\ \A k \in Links :
              /\ results[k].tld = k
              /\ results[k].success = (k \notin Failing)
         /\ Cardinality({k \in Links : ~results[k].success}) = Cardinality(Failing)

(* a run of three links in which the first threw and the two of the later
   batches succeeded *)
C1_Witness ==
    /\ runnerPc = "returned"
    /\ downloadLinks = 3
    /\ batchSize = 1
    /\ Failing = {1}
    /\ results[2].success
    /\ results[3].success

(* C2: a link's processor has started only if every link of every earlier
   batch has settled and one inter-batch delay of 1000 ms has elapsed for each
   earlier batch; when the run returns exactly one delay per batch but the
   last has been taken. *)
C2_BatchesInOrder ==
    /\ \A k \in Links :
         itemPc[k] # "pending" =>
           /\ \A j \in Links : BatchOf(j) < BatchOf(k) => Settled(j)
           /\ elapsed >= BatchOf(k) * DelayBetweenBatches
    /\ elapsed <= NumDelays * DelayBetweenBatches
    /\ runnerPc = "returned" => elapsed = NumDelays * DelayBetweenBatches

(* a link of the second batch is being processed, after one delay *)
C2_Witness ==
    \E k \in Links :
      /\ BatchOf(k) = 1
      /\ itemPc[k] = "downloading"
      /\ elapsed = DelayBetweenBatches

(* C3: at most batchSize processors have started and not yet settled. *)
C3_BoundedInFlight == Cardinality(InFlight) <= batchSize

(* the second link of a batch has settled while the first is still in
   flight: the links of a batch complete in any order *)
C3_Witness ==
    /\ batchSize >= 2
    /\ downloadLinks >= 2
    /\ itemPc[1] = "downloading"
    /\ itemPc[2] = "settled"

----------------------------------------------------------------------------
(* Claims about decompression *)

(* the sequential script hands zlib.gunzip only bytes whose header passed *)
TsGunzipAfterHeaderCheck ==
    \A k \in TsLinkSet : tsGunzipArg[k] # NoFile => HeaderOk(tsGunzipArg[k])

(* C9: on every path that decompresses an artifact (the script's
   extractGzFile, the job's extractAndProcessFile and downloadAndProcessZone)
   the bytes handed to gunzip are at least two bytes long and start with
   0x1F 0x8B. *)
C9_HeaderCheckedBeforeGunzip ==
    /\ TsGunzipAfterHeaderCheck
    /\ \A k \in Links : gunzipArg[k] # NoFile => HeaderOk(gunzipArg[k])

(* the decompression step of link k of the script has finished *)
TsDecompressionDone(k) ==
    \/ k < tsI
    \/ /\ k = tsI
       /\ \/ tsPc \in {"process", "sleep", "finish"}
          \/ tsPc = "exited" /\ tsError \in {"none", "header", "gunzip", "write", "process"}

(* the script leaves no .gz behind once decompression is over, unless an
   unlink failed *)
TsGzRemoved ==
    \A k \in TsLinkSet :
      TsDecompressionDone(k) /\ ~tsUnlinkFailed => tsGz[k] = NoFile

(* C10: once the decompression step of a link has finished, with success or
   with failure, its .gz artifact is not on disk, in the script and in the
   local pipeline of the job (a failing unlink in the script set aside). *)
C10_GzRemovedAfterDecompression ==
    /\ TsGzRemoved
    /\ mode = "local" =>
         \A k \in Links : gunzipArg[k] # NoFile => gz[k] = NoFile

----------------------------------------------------------------------------
(* Claims about credentials *)

(* now + bufferSeconds < expiry, strictly, for a token with a decodable exp *)
Fresh(token, now) ==
    token.kind = "jwt" /\ now + BufferSeconds * 1000 < token.exp * 1000

(* the script returns a cached JWT only while it is strictly fresh *)
TsCachedJwtIsFresh ==
    rtPc = "returned" /\ rtFromCache /\ rtToken.kind = "jwt" => Fresh(rtToken, nowMs)

(* C4: a token returned from the cache (the cache file of the script, the
   tokenCache of the job) has a decodable exp with now + 300 s < exp,
   strictly; any other acquisition returns a token that an authentication
   has just issued. *)
C4_CacheReuseOnlyWhileFresh ==
    /\ rtPc = "returned" =>
         IF rtFromCache THEN Fresh(rtToken, nowMs) ELSE rtToken.id = issued
    /\ mtPc = "returned" =>
         IF mtFromCache THEN Fresh(mtToken, nowMs) ELSE mtToken.id = issued

AllRateLimited(log, n) == \A j \in 1..n : log[j] = 429

(* the first k responses were rate limiting and response k+1 was a success,
   with k < maxRetries *)
SucceededAfterRetries ==
    /\ Len(authLog) >= 1
    /\ authLog[Len(authLog)] = 200
    /\ AllRateLimited(authLog, Len(authLog) - 1)
    /\ Len(authLog) - 1 < maxRetries

(* the authentication requests of a call never exceed maxRetries, and a call
   whose responses were all rate limiting ends, if it ends, with the
   retries-exceeded error after exactly maxRetries requests *)
RetriesExceededExactly ==
    /\ Len(authLog) <= maxRetries
    /\ rtPc = "authenticating" => Len(authLog) < maxRetries
    /\ rtPc = "threw" /\ AllRateLimited(authLog, Len(authLog)) =>
         rtError = "max-retries" /\ Len(authLog) = maxRetries
    /\ rtError = "max-retries" =>
         AllRateLimited(authLog, Len(authLog)) /\ Len(authLog) = maxRetries

CacheHolds(token) == cacheFile.state = "json" /\ cacheFile.accessToken = token

(* C5 as stated: after k rate-limited attempts and a successful attempt k+1
   (k < maxRetries) the call has returned the token of that attempt and the
   cache file holds it; maxRetries rate-limited attempts end in the
   retries-exceeded error after exactly maxRetries requests. *)
C5_RetryThenCached_AsStated ==
    /\ SucceededAfterRetries =>
         /\ rtPc = "returned" /\ ~rtFromCache
         /\ rtToken.id = issued
         /\ CacheHolds(rtToken)
    /\ RetriesExceededExactly

(* C5, amended: as stated, but the cache file holds the returned token only
   when saveTokenToCache succeeded; when the token does not decode or the
   write fails the call returns the token all the same and the cache file
   does not hold it. *)
C5_RetryThenCachedIfSaved ==
    /\ SucceededAfterRetries =>
         /\ rtPc = "returned" /\ ~rtFromCache
         /\ rtToken.id = issued
         /\ Len(authLog) = retryCount + 1
         /\ CacheHolds(rtToken) <=> lastSave = "saved"
    /\ RetriesExceededExactly

(* 429, 429, 200 with maxRetries = 3: the third attempt's token is returned
   and cached *)
C5_Witness ==
    /\ maxRetries = 3
    /\ authLog = <<429, 429, 200>>
    /\ rtPc = "returned"
    /\ lastSave = "saved"
    /\ CacheHolds(rtToken)

(* C6 as stated: the k-th wait is min(1000 * 2^(k-1), 30000) ms. *)
C6_BackoffFromOneSecond_AsStated ==
    \A k \in 1..Len(waits) : waits[k] = Min(1000 * 2 ^ (k - 1), 30000)

(* C6, amended: the k-th wait is min(1000 * 2^k, 30000) ms: the backoff
   starts at 2 s, doubles on each further rate-limited attempt and never
   exceeds 30 s. *)
C6_BackoffFromTwoSeconds ==
    \A k \in 1..Len(waits) : waits[k] = Min(1000 * 2 ^ k, 30000)

(* five rate-limited attempts: 2 s, 4 s, 8 s, 16 s and the cap of 30 s *)
C6_Witness == waits = <<2000, 4000, 8000, 16000, 30000>>

(* in the script a failure that is not rate limiting ends the acquisition:
   it is the last response, and only rate-limited responses are waited on *)
TsAuthFailureIsFinal ==
    /\ \A k \in 1..Len(authLog) :
         authLog[k] \in {401, 500} => k = Len(authLog) /\ rtPc = "threw"
    /\ Len(waits) = Cardinality({k \in 1..Len(authLog) : authLog[k] = 429})

(* C7: a 401 or a 500 of the authentication endpoint is the last response of
   the acquisition and no wait follows it, in getValidTokenWithRetry of the
   script and in getValidToken of the job. *)
C7_AuthFailureNotRetried ==
    /\ TsAuthFailureIsFinal
    /\ \A k \in 1..Len(fwLog) :
         fwLog[k] \in {401, 500} => k = Len(fwLog) /\ fwPc \notin {"sleep", "request"}

----------------------------------------------------------------------------
(* Claims about the link list *)

(* C8: when the first link-list response is 401 the token cache file is
   removed, one new authentication request is made and, when it issues a
   token, the link list is requested exactly once more with that token, never
   with the rejected one; when the second response is not a success the call
   fails; a call makes at most two link-list requests. *)
C8_RefreshOnceAfter401 ==
    /\ Len(flSent) <= 2
    /\ (Len(flStatus) >= 1 /\ flStatus[1] = 401) =>
         /\ flUnlink # "failed"
         /\ flReauth = 1
         /\ flPc \in {"returned", "processed"} => Len(flSent) = 2
         /\ Len(flSent) = 2 => flSent[2] # flSent[1] /\ flSent[2].id = issued
         /\ (Len(flStatus) = 2 /\ flStatus[2] # 200) => flPc = "threw"

(* the same when the removal of the cache file does not fail *)
RefreshOnceAfter401IfUnlinked ==
    flUnlink = "failed" \/ C8_RefreshOnceAfter401

----------------------------------------------------------------------------
(* Claims about failed downloads *)

(* downloadFile of the script leaves no file behind when it fails, unless the
   unlink failed *)
TsNoFileAfterDownloadFailure ==
    tsError = "download" /\ ~tsUnlinkFailed => tsGz[tsI] = NoFile

(* C11: when downloadFile has failed, of the script or of the job, no file
   is at the destination path, unless a deletion failed. *)
C11_NoFileAfterDownloadFailure ==
    /\ TsNoFileAfterDownloadFailure
    /\ \A k \in Links : mode = "local" /\ threw[k] = "download" => gz[k] = NoFile

----------------------------------------------------------------------------
(* Claims about the format of a download *)

(* C12 as stated: a downloaded body that does not start with the gzip magic
   bytes ends the processing of its TLD with the invalid-format failure, and
   no file is at <tld>.txt afterwards. *)
C12_BadMagicIsInvalidFormat_AsStated ==
    [][ (tsPc \in {"stat", "extract"} /\ ~HeaderOk(tsGz[tsI])) =>
          /\ tsPc' \in {"extract", "exited"}
          /\ tsPc' = "exited" => tsError' = "header" /\ tsTxt'[tsI] = "absent"
      ]_vars

(* C12, amended: a non-empty body that does not start with the gzip magic
   bytes ends the processing of its TLD with the invalid-format failure, an
   empty body with the empty-file failure; in both cases nothing is written
   to <tld>.txt, which stays as it was before the run. *)
C12_BadMagicWritesNoOutput ==
    [][ (tsPc \in {"stat", "extract"} /\ ~HeaderOk(tsGz[tsI])) =>
          /\ tsPc' \in {"extract", "exited"}
          /\ tsTxt'[tsI] = tsTxt[tsI]
          /\ tsGunzipArg'[tsI] = NoFile
          /\ tsPc' = "exited" =>
               tsError' = IF Len(tsGz[tsI]) = 0 THEN "empty" ELSE "header"
      ]_vars

(* a body without the magic bytes was rejected as an invalid format and there
   is no <tld>.txt *)
C12_Witness ==
    /\ tsPc = "exited"
    /\ tsError = "header"
    /\ tsExitCode = 1
    /\ tsTxt[tsI] = "absent"
    /\ tsGunzipArg[tsI] = NoFile

----------------------------------------------------------------------------
(* Claims about domain extraction *)

(* a line that is empty, a comment or a control directive once trimmed *)
Skippable(line) ==
    LET t == Trim(line) IN
    t = <<>> \/ StartsWith(t, SEMI) \/ StartsWith(t, DOLLAR)

(* the lines of a text that are not skippable *)
Retained(lines) == SelectSeq(lines, LAMBDA line : ~Skippable(line))

(* the elements of a list *)
Range(list) == {list[j] : j \in 1..Len(list)}

(* C13: a line that, once trimmed, is empty or starts with ';' or '$' emits
   no domain: the domains are those of the other lines alone. *)
C13_SkippableLinesEmitNothing ==
    exPc = "done" =>
      exDomains = Collect(exImpl, Retained(Split(exInput)), <<>>)

(* every extracted name is non-empty, has no upper-case letter and does not
   begin with ';' *)
DomainsNonEmptyLowerCase ==
    exPc = "done" =>
      \A d \in Range(exDomains) :
        d # <<>> /\ UpperA \notin Range(d) /\ ~StartsWith(d, SEMI)

(* C14: every extracted name is non-empty, has no upper-case letter, does
   not end with '.' and does not begin with ';' or '$'. *)
C14_DomainsAreNormalized ==
    exPc = "done" =>
      \A d \in Range(exDomains) :
        /\ d # <<>>
        /\ UpperA \notin Range(d)
        /\ ~EndsWith(d, DOT)
        /\ ~StartsWith(d, SEMI)
        /\ ~StartsWith(d, DOLLAR)

(* C15: the extraction applied to the file content it wrote gives the same
   domain set and the same file content. *)
C15_ExtractionIdempotent ==
    (exPc = "done" /\ exPass = 2) =>
      /\ Range(exDomains) = Range(exFirst.domains)
      /\ exOutput = exFirst.output

(* C16: the content written lists every distinct normalized name once, in
   ascending order of code units, joined by newlines with none at the end. *)
C16_OutputSortedDistinct ==
    exPc = "done" =>
      LET names == {DomainOf(exImpl, line) : line \in Range(Split(exInput))} \ {<<>>}
          out == Split(exOutput) IN
      IF names = {} THEN exOutput = <<>>
      ELSE /\ Len(out) = Cardinality(names)
           /\ Range(out) = names
           /\ \A j \in 1..(Len(out) - 1) : StrLess(out[j], out[j + 1])
           /\ ~EndsWith(exOutput, LF)

(* the lines "A." and "a" gave the single entry "a" *)
C16_Witness ==
    /\ exPc = "done"
    /\ exPass = 1
    /\ exInput = <<UpperA, DOT, LF, LowerA>>
    /\ exOutput = <<LowerA>>

----------------------------------------------------------------------------
(* Claims about the outcomes of a batch run *)

(* C17: the result of a run holds one outcome per link, in the order of the
   links, so that successes plus failures is the number of links, whatever
   the number of links (zero included) and the batch size; and a processor
   that has been started for a link is never started for it again. *)
C17_OneOutcomeOneAttemptPerLink ==
    /\ [](runnerPc = "returned" =>
            /\ Len(results) = downloadLinks
            /\ \A k \in 1..Len(results) : results[k] = outcome[k] /\ results[k].tld = k
            /\ Cardinality({k \in 1..Len(results) : results[k].success})
                 + Cardinality({k \in 1..Len(results) : ~results[k].success})
               = downloadLinks)
    /\ [][\A k \in Links :
            (itemPc[k] # "pending" /\ itemPc'[k] = "downloading")
              => itemPc[k] = "downloading"]_vars

(* three links in batches of two: the second failed, the run went on and
   returned three outcomes *)
C17_Witness ==
    /\ runnerPc = "returned"
    /\ downloadLinks = 3
    /\ batchSize = 2
    /\ Len(results) = 3
    /\ ~results[2].success
    /\ results[1].success
    /\ results[3].success

(* fetchDownloadLinks returns only arrays, never another structure *)
OnlyArraysAreReturned ==
    flPc \in {"returned", "processed"} => flPayload # "object"

(* C18: a payload that is not an array of strings makes fetchDownloadLinks
   fail, and no TLD processing starts from it. *)
C18_OnlyStringArraysAccepted ==
    flPayload \in Payloads \ {"strings"} =>
      /\ flPc \notin {"returned", "processed"}
      /\ ~flStarted

----------------------------------------------------------------------------
(* Claims about concurrent token acquisition *)

(* every call has returned or thrown *)
AllSettled == \A c \in Callers : gcPc[c] \in {"returned", "threw"}

(* C19: in every interleaving of the getValidToken calls of a batch, a call
   that returns gives a token that an authentication response carried (its
   own response, or the one tokenCache held), never an absent one; a call
   throws only when its own authentication did; and when all calls have
   settled tokenCache holds the token of the authentication that completed
   last. *)
C19_ConcurrentAcquisitionsAreSafe ==
    /\ \A c \in Callers :
         gcPc[c] = "returned" =>
           /\ gcToken[c] # NoToken
           /\ IF gcFromCache[c]
              THEN gcResp[c] = NoToken /\ gcToken[c].id <= issued
              ELSE gcToken[c] = gcResp[c] /\ gcToken[c].id \in 1..issued
    /\ \A c \in Callers :
         gcPc[c] = "threw" => gcToken[c] = NoToken /\ c \notin Range(gcDone)
    /\ \A c, e \in Callers :
         (c # e /\ gcResp[c] # NoToken /\ gcResp[e] # NoToken) => gcResp[c].id # gcResp[e].id
    /\ (AllSettled /\ gcDone # <<>>) =>
         tokenCache.accessToken = gcToken[gcDone[Len(gcDone)]]

(* two calls both found the cache empty and both authenticated; the response
   issued second completed first, so the cache ends with the token issued
   first *)
C19_Witness ==
    /\ AllSettled
    /\ gcDone = <<2, 1>>
    /\ gcToken[1].id = 1
    /\ gcToken[2].id = 2
    /\ tokenCache.accessToken = gcToken[1]

----------------------------------------------------------------------------
(* Claims about the paths of a batch *)

(* both work items have derived their paths *)
PathsDerived == gzPath[1] # NoFile /\ gzPath[2] # NoFile

(* no path of one work item is a path of the other *)
PathsDisjoint == {gzPath[1], txtPath[1]} \cap {gzPath[2], txtPath[2]} = {}

(* C20 as stated: the paths of two distinct links of a batch differ. *)
C20_DistinctLinksDistinctPaths_AsStated ==
    PathsDerived => PathsDisjoint

(* C20, amended: the paths of two links of a batch differ when the tokens
   before the first '.' of their final path segments differ. *)
C20_DistinctTldsDistinctPaths ==
    (PathsDerived /\ TldOf(Basename(urls[1])) # TldOf(Basename(urls[2]))) =>
      PathsDisjoint

(* the links /a.t and /t.a: the TLDs a and t, four different paths *)
C20_Witness ==
    /\ PathsDerived
    /\ urls[1] = <<LowerA, DOT, LowerT>>
    /\ urls[2] = <<LowerT, DOT, LowerA>>
    /\ PathsDisjoint

----------------------------------------------------------------------------
(* Claims about a whole run *)

(* the stages at which the processing of one TLD of the script fails *)
TldStages == {"download", "empty", "header", "gunzip", "write", "process"}

(* a failure of credential acquisition or of link listing ends the script
   with a non-zero status *)
TsTopLevelFailureExitsNonZero ==
    tsError \in {"token", "links"} => tsPc = "exited" /\ tsExitCode = 1

(* C21: the script exits non-zero when credential acquisition or link
   listing throws; a failure of one TLD does not: the process does not exit
   non-zero because of it and the remaining TLDs are processed. *)
C21_TldFailureKeepsExitCode ==
    /\ TsTopLevelFailureExitsNonZero
    /\ tsError \in TldStages => tsExitCode # 1
    /\ (tsPc = "exited" /\ tsError \notin {"token", "links"}) => tsI = tsLinks

(* a download request has been issued: a processor of the job has started,
   or the script is past the start of its first downloadFile *)
DownloadIssued ==
    \/ \E k \in Links : itemPc[k] # "pending"
    \/ (mainImpl = "ts" /\ mainPc = "process")
    \/ tsError \in TldStages

(* C22: a download request is issued only in a run in which
   fetchDownloadLinks has returned a link list (and, in the script, the
   credential was acquired before). *)
C22_DownloadsOnlyAfterLinkList ==
    /\ DownloadIssued => mainListed = "list"
    /\ mainPc = "failed" => ~DownloadIssued

(* the job started its processors after the link list came back *)
C22_Witness ==
    /\ mainImpl = "job"
    /\ mainListed = "list"
    /\ \E k \in Links : itemPc[k] = "downloading"

----------------------------------------------------------------------------
(* Claims about the credential *)

(* authenticate got a token from the endpoint and could not persist it *)
SaveFailedStep ==
    /\ flPc = "auth"
    /\ issued' = issued + 1
    /\ lastSave' \in {"undecodable", "write-failed"}

(* C23: when saving a freshly issued token fails (it does not decode, or
   the cache file cannot be written), authenticate still returns the token:
   the failure is only recorded as a warning, nothing is thrown, and the
   link-list request that needed the token is sent with it. *)
C23_SaveFailureIsNotFatal ==
    [][ /\ SaveFailedStep => (flPc' = "request" /\ flToken'.id = issued'
                                /\ flToken' \in IssuedTokens(issued', nowMs))
        /\ (flPc = "request" /\ flSent' # flSent) => flSent' = Append(flSent, flToken)
      ]_vars

(* a request went out with a token whose save had failed *)
C23_Witness ==
    /\ lastSave \in {"undecodable", "write-failed"}
    /\ issued >= 1
    /\ flSent # <<>>
    /\ flSent[Len(flSent)].id = issued

(* what saveTokenToCache of the script stores is decoded.exp * 1000 *)
TsStoredExpiryIsExpClaim ==
    (cacheFile.state = "json" /\ cacheFile.accessToken.kind = "jwt")
        => cacheFile.expiresAt = cacheFile.accessToken.exp * 1000

(* C24: the expiry stored with a cached token is the exp claim of the token
   in milliseconds (exp * 1000) whenever the claim decodes, whatever
   expiresIn the server stated, in the cache file of the script and in the
   tokenCache of the job. *)
C24_StoredExpiryIsExpClaim ==
    /\ TsStoredExpiryIsExpClaim
    /\ (tokenCache.state = "json" /\ tokenCache.accessToken.kind = "jwt")
           => tokenCache.expiresAt = tokenCache.accessToken.exp * 1000

----------------------------------------------------------------------------
(* Claims about a failed TLD *)

(* a failed TLD is terminal: in the script the run is over, in the job the
   processor of the link has settled *)
FailedIsTerminal ==
    /\ tsError \in TldStages => tsPc = "exited"
    /\ \A k \in Links : threw[k] # "none" => itemPc[k] = "settled"

(* C25: a TLD whose processing fails at any stage is terminal for the run:
   no later stage of it runs, and neither its .gz artifact nor a <tld>.txt
   with raw zone text written in this run remains on disk (a failing unlink
   set aside). *)
C25_FailedTldLeavesNothing ==
    /\ FailedIsTerminal
    /\ (tsError \in TldStages /\ ~tsUnlinkFailed)
           => (tsGz[tsI] = NoFile /\ tsTxt[tsI] \notin {"raw", "partial"})
    /\ \A k \in Links :
         (mode = "local" /\ threw[k] # "none") => (gz[k] = NoFile /\ txt[k] # "raw")

(* the script's failures before processZoneFile leave no .gz behind *)
TsFailedLeavesNoGz ==
    (tsError \in TldStages /\ ~tsUnlinkFailed) => tsGz[tsI] = NoFile

----------------------------------------------------------------------------
(* Claims about fetchWithRetry *)

(* the call is over *)
FwDone == fwPc \in {"returned", "threw"}

(* at most maxRetries + 1 requests *)
FwRequestsBounded == Len(fwLog) <= fwMaxRetries + 1

(* one sleep of 5000 ms between consecutive requests, and no other *)
FwWaitsBetweenRequests ==
    /\ fwSleeps = IF fwPc = "request" THEN Len(fwLog) ELSE Len(fwLog) - 1
    /\ nowMs = 5000 * fwSleeps

(* the first successful response is returned *)
FwReturnsFirstSuccess ==
    /\ fwPc = "returned" => fwLog[Len(fwLog)] = 200
    /\ \A k \in 1..Len(fwLog) : fwLog[k] = 200 => (k = Len(fwLog) /\ fwPc = "returned")

(* without a success the error of the last attempt is thrown *)
FwThrowsLastError ==
    fwPc = "threw" => (fwError = fwLog[Len(fwLog)] /\ fwError # 200)

(* fetch errors and 5xx responses are counted by the same retryCount *)
FwOneBudget ==
    fwRetryCount = Cardinality({k \in 1..Len(fwLog) : fwLog[k] # 200})
                     - (IF fwPc = "threw" THEN 1 ELSE 0)

(* C26: every call of fetchWithRetry ends once each request settles; it
   makes at most maxRetries + 1 requests with 5000 ms between consecutive
   ones, returns the first successful response and otherwise throws the
   error of the last attempt; fetch errors and 5xx responses use the same
   retry budget. *)
C26_FetchWithRetryTerminates ==
    /\ [](FwRequestsBounded /\ FwWaitsBetweenRequests /\ FwReturnsFirstSuccess
            /\ FwThrowsLastError /\ FwOneBudget)
    /\ <>FwDone

(* the budget was used up by fetch errors and 5xx responses together *)
C26_Witness ==
    /\ fwPc = "threw"
    /\ fwMaxRetries = 2
    /\ fwLog = <<0, 500, 0>>
    /\ fwSleeps = 2

(* 5xx responses and fetch errors are retried while the budget lasts *)
FwServerErrorsRetried ==
    \A k \in 1..Len(fwLog) :
      (fwLog[k] \in {500, 0} /\ k <= fwMaxRetries)
          => (k < Len(fwLog) \/ fwPc \in {"sleep", "request"})

(* C27: a response that is not a success and whose status is below 500
   (401, 429) makes fetchWithRetry fail at once with the HTTP error: no wait
   and no further request follows it; only 5xx responses and fetch errors
   are retried. *)
C27_ClientErrorsFailAtOnce ==
    /\ FwServerErrorsRetried
    /\ \A k \in 1..Len(fwLog) :
         fwLog[k] \in {401, 429} => (k = Len(fwLog) /\ fwPc = "threw" /\ fwError = fwLog[k])

----------------------------------------------------------------------------
(* Claims about CONCURRENCY_LIMIT *)

(* processInBatches is over *)
BatchDone == runnerPc \in {"returned", "threw"}

(* with a positive limit the run ends and every processor was invoked *)
PositiveLimitTerminates ==
    /\ batchSize >= 1 => <>BatchDone
    /\ [](batchSize >= 1 /\ runnerPc = "returned"
            => \A k \in Links : itemPc[k] = "settled")

(* C28: for every integer CONCURRENCY_LIMIT, zero and negative included,
   processInBatches ends on every finite link list, and the processor has
   been invoked for every link, once. *)
C28_TerminatesForEveryLimit ==
    /\ <>BatchDone
    /\ [](runnerPc = "returned" => \A k \in Links : itemPc[k] = "settled")
    /\ [][\A k \in Links :
            (itemPc[k] # "pending" /\ itemPc'[k] = "downloading")
              => itemPc[k] = "downloading"]_vars

----------------------------------------------------------------------------
(* Claims about the streams of a download *)

(* a body that ends normally settles the call: "finish" resolves it, a
   write error rejects it *)
DlEndedBodySettles == (dlPc = "piping" /\ dlBody = "ended") ~> DlSettled

(* C29: every call of downloadFile of the script whose response has arrived
   settles: whether the body ends or fails mid-transfer and whether the write
   stream finishes or fails, the promise is resolved or rejected, and the
   loop goes on to its next step or to its failure handling. *)
C29_DownloadAlwaysSettles == (dlPc = "piping") ~> (DlSettled /\ tsPc # "download")

----------------------------------------------------------------------------
(* Claims about processRootZone *)

(* something was written to the database *)
RzDbWritten == rzTables \/ \E k \in 1..Len(rzQuery) : rzQuery[k] # "none"

(* C30: processRootZone writes no output file and nothing to the database
   unless the three fetches (TLD table, RDAP bootstrap, DNSSEC of the root
   zone) have all succeeded; then the eight local files are written before
   anything is written to the database, and the combined data has one row
   for every fetched TLD row, in the same order. *)
C30_NothingWrittenUnlessAllFetched ==
    /\ (rzFiles # <<>> \/ RzDbWritten) => \A f \in Fetches : rzFetch[f] = "ok"
    /\ RzDbWritten => rzFiles = RootFiles
    /\ rzFiles # <<>> =>
         /\ Len(rzCombined) = Len(rzRows)
         /\ \A k \in 1..Len(rzRows) : rzCombined[k].domain = rzRows[k]

(* two rows were merged, all files written and both rows sent to the
   database *)
C30_Witness ==
    /\ rzPc = "done"
    /\ rzDb
    /\ rzRows = <<2, 1>>
    /\ rzFiles = RootFiles
    /\ rzQuery = <<"ok", "failed">>

============================================================================
